---- MODULE Spec2Model ----
(***************************************************************************)
(* State-machine model of the turnstile access-control gateway:            *)
(*   - the Lockfile marker shared by the two processes,                    *)
(*   - the synchronization job runImport (pull phase under the lock, push  *)
(*     phase after it),                                                    *)
(*   - the TurnstileClient decoder and the TurnstileOrchestrator event     *)
(*     handlers, one step per synchronous segment between two awaits.      *)
(* Time is counted in seconds since Sunday 00:00 in the configured zone.   *)
(***************************************************************************)
EXTENDS Integers, Sequences, FiniteSets, TLC

\* ------------------------------------------------------------------------
\* Bounds of the model
\* ------------------------------------------------------------------------
MaxRuns == 2
MaxHandlers == 2
MaxTicks == 2
MaxAccesses == 1
MaxAcks == 2
TickSeconds == 60
MaxSends == 2
MaxShuts == 1
\* Turn-start events handled in SpecTurns
MaxTurnStarts == 2

\* ------------------------------------------------------------------------
\* Program constants and configuration
\* ------------------------------------------------------------------------
timeoutSeconds == 60
DELAY_TOLERANCE == 1
STX == 2
ETX == 3
PLUS == 43
BRACKET == 93
RFID_READ == 0
TURN_START == 81
TURN_END == 82
ENTRY == 2
EXIT == 3
MinFrameLength == 7

weekDays == <<"sunday", "monday", "tuesday", "wednesday", "thursday",
              "friday", "saturday">>

\* ------------------------------------------------------------------------
\* Byte strings: a string is a sequence of byte values
\* ------------------------------------------------------------------------
Digit(n) == 48 + n
IsDigit(b) == b >= 48 /\ b <= 57
IsSpace(b) == b \in {9, 10, 11, 12, 13, 32}

RECURSIVE SkipSpaces(_, _)
SkipSpaces(s, i) ==
  IF i <= Len(s) /\ IsSpace(s[i]) THEN SkipSpaces(s, i + 1) ELSE i

RECURSIVE DigitsValue(_, _, _)
DigitsValue(s, i, acc) ==
  IF i <= Len(s) /\ IsDigit(s[i])
    THEN DigitsValue(s, i + 1, acc * 10 + (s[i] - 48))
    ELSE acc

\* parseInt(string): optional white space, optional sign, leading decimal
\* digits; NaN when no digit follows. parseInt(undefined) is NaN as well.
NaN == [nan |-> TRUE, val |-> 0]
Num(n) == [nan |-> FALSE, val |-> n]

ParseInt(s) ==
  LET i == SkipSpaces(s, 1)
      neg == i <= Len(s) /\ s[i] = 45
      j == IF i <= Len(s) /\ s[i] \in {43, 45} THEN i + 1 ELSE i
  IN IF j <= Len(s) /\ IsDigit(s[j])
       THEN Num(IF neg THEN 0 - DigitsValue(s, j, 0) ELSE DigitsValue(s, j, 0))
       ELSE NaN

\* String.prototype.split(']'): the pieces between the separators, at least
\* one piece (the empty string splits into one empty piece).
RECURSIVE Split(_, _)
Split(s, sep) ==
  LET hits == {i \in 1..Len(s) : s[i] = sep}
  IN IF hits = {} THEN <<s>>
     ELSE LET k == CHOOSE i \in hits : \A j \in hits : i <= j
          IN <<SubSeq(s, 1, k - 1)>> \o Split(SubSeq(s, k + 1, Len(s)), sep)

\* data[i] of a split result, 0-based; undefined past the end parses as NaN
FieldInt(fields, i) ==
  IF i + 1 <= Len(fields) THEN ParseInt(fields[i + 1]) ELSE NaN

\* Buffer.slice(from, to) with 0-based bounds, empty when to <= from
Slice(buf, from, to) == SubSeq(buf, from + 1, to)

\* ------------------------------------------------------------------------
\* TurnstileClient._readResponse
\* ------------------------------------------------------------------------
DecodeError(why) == [ok |-> FALSE, why |-> why]

\* while (cursor < length - 1 && messageBuffer[cursor] !== PLUS) cursor++
RECURSIVE ScanField(_, _)
ScanField(buf, cursor) ==
  IF cursor < Len(buf) - 1 /\ buf[cursor + 1] # PLUS
    THEN ScanField(buf, cursor + 1)
    ELSE cursor

_readResponse(buf) ==
  LET length == Len(buf) IN
  IF length < MinFrameLength THEN DecodeError("short")
  ELSE IF buf[1] # STX \/ buf[length] # ETX THEN DecodeError("interference")
  ELSE IF buf[6] # PLUS THEN DecodeError("no separator after index")
  ELSE
    LET cmdStart == 6
        cmdEnd == ScanField(buf, cmdStart)
    IN IF buf[cmdEnd + 1] # PLUS THEN DecodeError("no separator after command")
       ELSE
         LET errStart == cmdEnd + 1
             errEnd == ScanField(buf, errStart)
         IN IF buf[errEnd + 1] # PLUS
              THEN DecodeError("no separator after err/version")
              ELSE [ok |-> TRUE,
                    size |-> buf[2],
                    index |-> ParseInt(<<buf[4], buf[5]>>),
                    command |-> Slice(buf, cmdStart, cmdEnd),
                    error_or_version |-> Slice(buf, errStart, errEnd),
                    data |-> Slice(buf, errEnd + 1, length - 2)]

\* ------------------------------------------------------------------------
\* State
\* ------------------------------------------------------------------------
VARIABLES
  clock,          \* wall clock, seconds since Sunday 00:00
  marker,         \* the lock file /tmp/import.lock: existence and mtime
  overdue,        \* history: some marker has been older than its timeout
  tags,           \* Tag table, keyed by userId
  classes,        \* Class table: set of (start, weekDay, tagUserId) rows
  accesses,       \* Access table: sequence of rows, id = position
  runs,           \* the invocations of runImport
  proc,           \* turnstile process: "running" or "exited"
  waitingToTurn,  \* TurnstileOrchestrator.waitingToTurn
  handlers,       \* processMessage invocations suspended at an await
  done,           \* what the step just taken completed: the handling of one
                  \* chunk and its outcome, or nothing
  codec,          \* TurnstileClient codec at work: fields, frame, decoding
  tcp             \* TCPClient: its socket, and the attempts it has started

lockVars == <<marker, overdue>>
dbVars == <<tags, classes, accesses>>
engineVars == <<proc, waitingToTurn, handlers>>
ioVars == <<codec, tcp>>
vars == <<clock, marker, overdue, tags, classes, accesses, runs,
          proc, waitingToTurn, handlers, done, codec, tcp>>

\* TCPClient as constructed: this.socket = null. closes counts the sockets
\* destroyed whose 'close' event is still to be emitted; cleanups counts the
\* calls of _cleanup() still to be made by a connect() whose race rejected or
\* by the callback of a write that failed with its socket; writes counts the
\* payloads buffered on a socket that is still connecting; resume tells that
\* a send() is suspended in its await of connect(); last names the event
\* handled by the step just taken; gen changes with every socket opened;
\* started tells that TurnstileOrchestrator.start() has run.
NoClient ==
  [socket |-> "none", closes |-> 0, cleanups |-> 0, writes |-> 0,
   resume |-> FALSE, last |-> "none", sends |-> 0, shuts |-> 0,
   gen |-> 0, started |-> FALSE]

RunIds == 1..MaxRuns
HandlerIds == 1..MaxHandlers
\* Ids an acknowledgement may name: those of the rows and one more
AccessIds == 1..(MaxAccesses + 1)

\* ------------------------------------------------------------------------
\* Lockfile
\* ------------------------------------------------------------------------
NoMarker == [exists |-> FALSE, mtime |-> 0]

\* A marker that counts as expired as soon as it exists
LockExpiredAtOnce(m, now) == m.exists

\* A marker that never counts as expired
LockNeverExpires(m, now) == FALSE

\* age > this.timeoutMs
LockExpired(m, now) == m.exists /\ (now - m.mtime) > timeoutSeconds

\* A release that leaves the marker in place
releaseKeepsMarker(m) == m

\* Lockfile.release: the marker is removed if it exists
release(m) == NoMarker

\* Lockfile.isLocked, value returned
isLocked(m, now) == m.exists /\ ~LockExpired(m, now)

\* isLocked() that leaves every marker in place
isLockedKeepsMarker(m, now) == m

\* Lockfile.isLocked, marker left behind: an expired marker is removed
isLockedEffect(m, now) == IF LockExpired(m, now) THEN release(m) ELSE m

\* Lockfile.acquire without the isLocked() test
acquireAlways(m, now) == [ok |-> TRUE, marker |-> [exists |-> TRUE, mtime |-> now]]

\* Lockfile.acquire that stamps the marker again when it is refused
acquireRestamps(m, now) ==
  [ok |-> ~isLocked(m, now), marker |-> [exists |-> TRUE, mtime |-> now]]

\* Lockfile.acquire, value returned and marker left behind
acquire(m, now) ==
  IF isLocked(m, now)
    THEN [ok |-> FALSE, marker |-> isLockedEffect(m, now)]
    ELSE [ok |-> TRUE, marker |-> [exists |-> TRUE, mtime |-> now]]

\* ------------------------------------------------------------------------
\* Repository tables
\* ------------------------------------------------------------------------
Users == {1, 2}
NoTag == [present |-> FALSE]
Tag(userId, credential, released, status, admin) ==
  [present |-> TRUE, userId |-> userId, credential |-> credential,
   released |-> released, status |-> status, admin |-> admin]

\* TagPrismaRepository.getByCredential: findUnique on the unique credential
getByCredential(t, credential) ==
  LET hit == {u \in Users : t[u].present /\ t[u].credential = credential}
  IN IF hit = {} THEN NoTag ELSE t[CHOOSE u \in hit : TRUE]

\* TagPrismaRepository.createOrUpdate: upsert by userId; the unique index on
\* credential rejects a credential another user holds
CredentialTaken(t, userId, credential) ==
  \E u \in Users : u # userId /\ t[u].present /\ t[u].credential = credential

createOrUpdate(t, user) ==
  [t EXCEPT ![user.userId] =
     Tag(user.userId, user.credential, user.released, user.status, user.admin)]

\* A delete that removes the rows of every user
deleteFromEveryUser(c, userId) == {}

\* ClassPrismaRepository.deleteFromUserId / create (upsert on the composite key)
deleteFromUserId(c, userId) == {row \in c : row.tagUserId # userId}
ClassRow(start, weekDay, userId) ==
  [start |-> start, weekDay |-> weekDay, tagUserId |-> userId]
classCreate(c, row) == c \cup {row}
getClassesFromUserIdAndWeekDay(c, userId, weekDay) ==
  {row \in c : row.tagUserId = userId /\ row.weekDay = weekDay}

\* A create that stores the row twice
accessCreateTwice(a, userId, timestamp) ==
  LET row == [tagUserId |-> userId, timestamp |-> timestamp, status |-> "waiting"]
  IN Append(Append(a, row), row)

\* AccessPrismaRepository
accessCreate(a, userId, timestamp) ==
  Append(a, [tagUserId |-> userId, timestamp |-> timestamp, status |-> "waiting"])
getWaitingAccesses(a) == {id \in 1..Len(a) : a[id].status = "waiting"}
\* An update that stores nothing
updateStatusKeeps(a, id, status) == a
updateStatus(a, id, status) == [a EXCEPT ![id].status = status]
HasAccess(a, userId) == \E id \in 1..Len(a) : a[id].tagUserId = userId
\* findFirst ordered by timestamp descending
getLastAccessFromUserId(a, userId) ==
  LET mine == {id \in 1..Len(a) : a[id].tagUserId = userId}
  IN a[CHOOSE id \in mine : \A o \in mine : a[o].timestamp <= a[id].timestamp]

\* ------------------------------------------------------------------------
\* The external API's answer to GET /api/catraca, and its validation
\* ------------------------------------------------------------------------
COLON == 58
weekDayKeys == {"dom", "seg", "ter", "qua", "qui", "sex", "sab"}
weekDayOf(key) ==
  CASE key = "dom" -> "sunday" [] key = "seg" -> "monday"
    [] key = "ter" -> "tuesday" [] key = "qua" -> "wednesday"
    [] key = "qui" -> "thursday" [] key = "sex" -> "friday"
    [] key = "sab" -> "saturday"

AllDigits(s) == \A i \in 1..Len(s) : IsDigit(s[i])

\* /^(?:[0-9]|1[0-9]|2[0-3]):[0-5][0-9]:[0-5][0-9]$/
HoraMatches(s) ==
  LET parts == Split(s, COLON) IN
  /\ Len(parts) = 3
  /\ \A i \in 1..3 : AllDigits(parts[i])
  /\ \/ Len(parts[1]) = 1
     \/ Len(parts[1]) = 2 /\ parts[1][1] = Digit(1)
     \/ Len(parts[1]) = 2 /\ parts[1][1] = Digit(2) /\ parts[1][2] <= Digit(3)
  /\ \A i \in 2..3 : Len(parts[i]) = 2 /\ parts[i][1] <= Digit(5)

\* const [hh, mm] = time.split(':').map(parseInt); return hh * 60 + mm
timeToMinutes(time) ==
  LET parts == Split(time, COLON)
  IN ParseInt(parts[1]).val * 60 + ParseInt(parts[2]).val

HourSchemaOk(h) ==
  HoraMatches(h.hora) /\ \A i \in 1..Len(h.dias) : h.dias[i] \in weekDayKeys

\* GetApiResponseSchema.safeParse(item).success
SchemaOk(item) ==
  /\ item.liberado \in {"true", "false"}
  /\ item.status # ""
  /\ \A i \in 1..Len(item.horarios) : HourSchemaOk(item.horarios[i])

RECURSIVE ExpandDays(_, _, _)
ExpandDays(start, dias, userId) ==
  IF dias = <<>> THEN <<>>
  ELSE <<ClassRow(start, weekDayOf(Head(dias)), userId)>>
       \o ExpandDays(start, Tail(dias), userId)

\* for (const [start, weekDayList] of user.horarios)
\*   for (const weekDay of weekDayList) ...: the rows in creation order
RECURSIVE ExpandRows(_, _)
ExpandRows(horarios, userId) ==
  IF horarios = <<>> THEN <<>>
  ELSE ExpandDays(timeToMinutes(Head(horarios).hora), Head(horarios).dias, userId)
       \o ExpandRows(Tail(horarios), userId)

\* result.data of a valid item
ParsedUser(item) ==
  [userId |-> item.aluno_id, credential |-> item.credencial,
   released |-> (item.liberado = "true"), status |-> item.status,
   admin |-> item.admin, rows |-> ExpandRows(item.horarios, item.aluno_id)]

RECURSIVE ValidUsers(_)
ValidUsers(items) ==
  IF items = <<>> THEN <<>>
  ELSE (IF SchemaOk(Head(items)) THEN <<ParsedUser(Head(items))>> ELSE <<>>)
       \o ValidUsers(Tail(items))

\* "0:01:00" and "0:03:00"
Hora1 == <<Digit(0), COLON, Digit(0), Digit(1), COLON, Digit(0), Digit(0)>>
Hora3 == <<Digit(0), COLON, Digit(0), Digit(3), COLON, Digit(0), Digit(0)>>
\* "24:00:00" does not match the pattern
HoraBad == <<Digit(2), Digit(4), COLON, Digit(0), Digit(0), COLON, Digit(0), Digit(0)>>

Item(aluno, cred, horarios, liberado, status, admin) ==
  [aluno_id |-> aluno, credencial |-> cred, horarios |-> horarios,
   liberado |-> liberado, status |-> status, admin |-> admin]

ItemStudentMoved ==
  Item(1, 1, <<[hora |-> Hora3, dias |-> <<"dom", "seg">>]>>, "true", "OK", FALSE)
ItemStudentBlocked ==
  Item(1, 1, <<[hora |-> Hora1, dias |-> <<"dom">>]>>, "false", "PENDENTE", FALSE)
ItemAdmin == Item(2, 2, <<>>, "false", "ADMIN", TRUE)
ItemNoLiberado == Item(2, 2, <<>>, "missing", "OK", FALSE)
ItemBadHour == Item(2, 2, <<[hora |-> HoraBad, dias |-> <<"dom">>]>>, "true", "OK", FALSE)

\* What the GET can produce: a rejected request (network error, HTTP error
\* status, body that is not JSON), a JSON body that is not a list, or a list.
GetResponses ==
  { [kind |-> "error"],
    [kind |-> "notlist"],
    [kind |-> "list", items |-> <<ItemStudentMoved, ItemAdmin>>],
    [kind |-> "list", items |-> <<ItemNoLiberado, ItemStudentBlocked>>],
    [kind |-> "list", items |-> <<ItemBadHour>>] }

\* The valid records of every list the GET can produce
Validated ==
  [resp \in {g \in GetResponses : g.kind = "list"} |-> ValidUsers(resp.items)]

\* What the POST can produce: a rejected request, a body that fails
\* PostApiResponseSchema, or a list of acknowledgements (acesso, status)
AckLists ==
  {a \in SUBSET (AccessIds \X BOOLEAN) : Cardinality(a) <= MaxAcks}
PostResponses ==
  {[kind |-> "error"], [kind |-> "invalid"]}
    \cup {[kind |-> "acks", acks |-> a] : a \in AckLists}

\* ------------------------------------------------------------------------
\* Commands to the controller and outcomes of event handling
\* ------------------------------------------------------------------------
NoCommand == [kind |-> "none"]
Command(kind, index, message) == [kind |-> kind, index |-> index, message |-> message]
\* TurnstileClient.denyAccess(index, message = text.accessDenied)
denyAccess(index, message) == Command("deny", index, message)
denyAccessDefault(index) == Command("deny", index, "accessDenied")
allowEntry(index, message) == Command("allowEntry", index, message)
allowExit(index, message) == Command("allowExit", index, message)
IsAllow(cmd) == cmd.kind \in {"allowEntry", "allowExit"}

NoTurn == [set |-> FALSE]
WaitingToTurn(index, tagId) == [set |-> TRUE, messageIndex |-> index, tagId |-> tagId]

\* The handling of one chunk that the last step completed: the event, whether
\* its tagId parsed, what isLocked() returned, the command sent, the number
\* of repository reads, whether an Access row was created, and waitingToTurn
\* as it was before the step; for a handling that went past the lock test,
\* also the tagId and direction read, whether the tag found is an admin's,
\* and whether a repository call rejected
Outcome(event, parsable, locked, cmd, lookups, created, before) ==
  [event |-> event, parsable |-> parsable, locked |-> locked, cmd |-> cmd,
   lookups |-> lookups, created |-> created, before |-> before,
   tagId |-> 0, way |-> NaN, admin |-> FALSE, rejected |-> FALSE]
NothingDone == Outcome("none", FALSE, FALSE, NoCommand, 0, FALSE, NoTurn)

\* ------------------------------------------------------------------------
\* runImport
\* ------------------------------------------------------------------------
IdleRun ==
  [pc |-> "idle", queue |-> <<>>, rows |-> <<>>, batch |-> {}, acks |-> {},
   sawLocked |-> FALSE, acquired |-> FALSE, released |-> FALSE,
   gets |-> 0, posts |-> 0, wrote |-> FALSE,
   items |-> <<>>, start |-> <<>>, faulted |-> {}, missed |-> {}]

PullPcs == {"get", "upsert", "delete", "create"}
InPull(r) == runs[r].pc \in PullPcs
Ended(r) == runs[r].pc \in {"aborted", "done", "failed"}


\* if (!lockfile.acquire()) return
RunAcquire(r) ==
  /\ runs[r].pc = "idle"
  /\ \A q \in RunIds : q < r => runs[q].pc # "idle"
  /\ LET got == acquire(marker, clock) IN
       /\ marker' = got.marker
       /\ runs' = [runs EXCEPT ![r] =
            IF got.ok
              THEN [@ EXCEPT !.pc = "get", !.acquired = TRUE]
              ELSE [@ EXCEPT !.pc = "aborted", !.sawLocked = TRUE]]
  /\ done' = NothingDone
  /\ UNCHANGED <<ioVars, clock, overdue, dbVars, engineVars>>

\* data = await ky.get(...).json(), then validation of every item, when the
\* API answers with one of responses
RunGetFrom(r, responses) ==
  /\ runs[r].pc = "get"
  /\ \E resp \in responses :
       CASE resp.kind = "error" ->
              /\ marker' = release(marker)
              /\ runs' = [runs EXCEPT ![r] =
                   [@ EXCEPT !.pc = "done", !.gets = 1, !.released = TRUE]]
         [] resp.kind = "notlist" ->
              \* for (const item of data) throws: the promise rejects
              /\ marker' = marker
              /\ runs' = [runs EXCEPT ![r] = [@ EXCEPT !.pc = "failed", !.gets = 1]]
         [] resp.kind = "list" ->
              LET valid == Validated[resp] IN
              IF valid = <<>>
                THEN /\ marker' = release(marker)
                     /\ runs' = [runs EXCEPT ![r] =
                          [@ EXCEPT !.pc = "done", !.gets = 1, !.released = TRUE]]
                ELSE /\ marker' = marker
                     /\ runs' = [runs EXCEPT ![r] =
                          [@ EXCEPT !.pc = "upsert", !.gets = 1, !.queue = valid,
                                    !.items = resp.items,
                                    !.start = <<tags, classes>>]]
  /\ done' = NothingDone
  /\ UNCHANGED <<ioVars, clock, overdue, dbVars, engineVars>>

RunGet(r) == RunGetFrom(r, GetResponses)

\* End of one iteration of `for (const user of validUsers)`: the next user,
\* or after the last one lockfile.release() and the call of getWaitingAccesses
AfterUser(run) ==
  IF Len(run.queue) > 1
    THEN [run EXCEPT !.pc = "upsert", !.queue = Tail(@), !.rows = <<>>]
    ELSE [run EXCEPT !.pc = "fetch", !.queue = <<>>, !.rows = <<>>,
                     !.released = TRUE, !.start = <<>>]
\* The query made for userId was failed by the database itself, not by the
\* data: history kept for the pull phase
Faulted(run, userId) == [run EXCEPT !.faulted = @ \cup {userId}]

MarkerAfterUser(run, m) == IF Len(run.queue) > 1 THEN m ELSE release(m)

\* await tagService.createOrUpdate({...}); a rejection (a failed query, or the
\* unique index on credential) is caught by the per-user try/catch
RunUpsertTag(r) ==
  /\ runs[r].pc = "upsert"
  /\ LET user == Head(runs[r].queue) IN
     \E ok \in BOOLEAN :
       /\ ok => ~CredentialTaken(tags, user.userId, user.credential)
       /\ tags' = IF ok THEN createOrUpdate(tags, user) ELSE tags
       /\ marker' = IF ok THEN marker ELSE MarkerAfterUser(runs[r], marker)
       /\ runs' = [runs EXCEPT ![r] =
            IF ok THEN [@ EXCEPT !.pc = "delete", !.wrote = TRUE]
            ELSE IF CredentialTaken(tags, user.userId, user.credential)
              THEN AfterUser(@)
              ELSE AfterUser(Faulted(@, user.userId))]
  /\ done' = NothingDone
  /\ UNCHANGED <<ioVars, clock, overdue, classes, accesses, engineVars>>

\* await classService.deleteFromUserId({ id }), then the liberado/admin test
RunDeleteClasses(r) ==
  /\ runs[r].pc = "delete"
  /\ LET user == Head(runs[r].queue)
         skip == (~user.released /\ ~user.admin) \/ user.rows = <<>>
     IN
     \E ok \in BOOLEAN :
       /\ classes' = IF ok THEN deleteFromUserId(classes, user.userId) ELSE classes
       /\ marker' = IF ok /\ ~skip THEN marker ELSE MarkerAfterUser(runs[r], marker)
       /\ runs' = [runs EXCEPT ![r] =
            IF ok /\ ~skip
              THEN [@ EXCEPT !.pc = "create", !.rows = user.rows, !.wrote = TRUE]
            ELSE IF ok THEN AfterUser([@ EXCEPT !.wrote = TRUE])
              ELSE AfterUser(Faulted(@, user.userId))]
  /\ done' = NothingDone
  /\ UNCHANGED <<ioVars, clock, overdue, tags, accesses, engineVars>>

\* await classService.create({ start, weekDay, userId }) for the next row
RunCreateClass(r) ==
  /\ runs[r].pc = "create"
  /\ LET more == Len(runs[r].rows) > 1 IN
     \E ok \in BOOLEAN :
       /\ classes' = IF ok THEN classCreate(classes, Head(runs[r].rows)) ELSE classes
       /\ marker' = IF ok /\ more THEN marker ELSE MarkerAfterUser(runs[r], marker)
       /\ runs' = [runs EXCEPT ![r] =
            IF ok /\ more THEN [@ EXCEPT !.rows = Tail(@), !.wrote = TRUE]
            ELSE IF ok THEN AfterUser([@ EXCEPT !.wrote = TRUE])
            ELSE AfterUser(Faulted(@, Head(@.queue).userId))]
  /\ done' = NothingDone
  /\ UNCHANGED <<ioVars, clock, overdue, tags, accesses, engineVars>>

\* The history of the pull phase is dropped when the push phase begins
PullForgotten(run) == [run EXCEPT !.items = <<>>, !.start = <<>>, !.faulted = {}]

\* const waitingAccesses = await accessService.getWaitingAccesses()
RunFetch(r) ==
  /\ runs[r].pc = "fetch"
  /\ \E ok \in BOOLEAN :
       /\ runs' = [runs EXCEPT ![r] =
            LET run == PullForgotten(@) IN
            IF ~ok THEN [run EXCEPT !.pc = "failed"]
            ELSE IF getWaitingAccesses(accesses) = {} THEN [run EXCEPT !.pc = "done"]
            ELSE [run EXCEPT !.pc = "post", !.batch = getWaitingAccesses(accesses)]]
  /\ done' = NothingDone
  /\ UNCHANGED <<ioVars, clock, lockVars, dbVars, engineVars>>

\* data = await ky.post(..., { json: requestBody }).json(), then
\* PostApiResponseSchema.safeParse(data), when the API answers with one of
\* responses
RunPostFrom(r, responses) ==
  /\ runs[r].pc = "post"
  /\ \E resp \in responses :
       runs' = [runs EXCEPT ![r] =
         IF resp.kind = "acks" /\ resp.acks # {}
           THEN [@ EXCEPT !.pc = "update", !.posts = 1, !.acks = resp.acks]
           ELSE [@ EXCEPT !.pc = "done", !.posts = 1]]
  /\ done' = NothingDone
  /\ UNCHANGED <<ioVars, clock, lockVars, dbVars, engineVars>>

RunPost(r) == RunPostFrom(r, PostResponses)

\* A loop over the acknowledgements that a rejected update ends
RunUpdateStopsAtFailure(r) ==
  /\ runs[r].pc = "update"
  /\ \E ack \in runs[r].acks, ok \in BOOLEAN :
       /\ ok => ack[1] <= Len(accesses)
       /\ accesses' = IF ok
            THEN updateStatus(accesses, ack[1], IF ack[2] THEN "granted" ELSE "revoked")
            ELSE accesses
       /\ runs' = [runs EXCEPT ![r] =
            LET run == [@ EXCEPT !.missed = IF ok THEN @ ELSE @ \cup {ack}] IN
            IF runs[r].acks = {ack} \/ ~ok
              THEN [run EXCEPT !.pc = "done", !.acks = {}]
              ELSE [run EXCEPT !.acks = @ \ {ack}]]
  /\ done' = NothingDone
  /\ UNCHANGED <<ioVars, clock, lockVars, tags, classes, engineVars>>

\* await accessService.updateStatus({ id: response.acesso, status }) for the
\* next acknowledgement; prisma's update rejects when no row has that id, and
\* every rejection is caught and logged (missed: the acknowledgements logged)
RunUpdate(r) ==
  /\ runs[r].pc = "update"
  /\ \E ack \in runs[r].acks, ok \in BOOLEAN :
       LET id == ack[1]
           exists == id <= Len(accesses)
       IN
       /\ ok => exists
       /\ accesses' = IF ok
            THEN updateStatus(accesses, id, IF ack[2] THEN "granted" ELSE "revoked")
            ELSE accesses
       /\ runs' = [runs EXCEPT ![r] =
            LET run == [@ EXCEPT !.missed = IF ok THEN @ ELSE @ \cup {ack}] IN
            IF runs[r].acks = {ack}
              THEN [run EXCEPT !.pc = "done", !.acks = {}]
              ELSE [run EXCEPT !.acks = @ \ {ack}]]
  /\ done' = NothingDone
  /\ UNCHANGED <<ioVars, clock, lockVars, tags, classes, engineVars>>

\* Time passes
Tick ==
  /\ clock < MaxTicks * TickSeconds
  /\ clock' = clock + TickSeconds
  /\ overdue' = (overdue \/ LockExpired(marker, clock + TickSeconds))
  /\ done' = NothingDone
  /\ UNCHANGED <<ioVars, marker, dbVars, runs, engineVars>>

\* ------------------------------------------------------------------------
\* TurnstileClient._checksum and _buildFrame
\* ------------------------------------------------------------------------
\* a ^ b on non-negative integers
RECURSIVE Xor(_, _)
Xor(a, b) ==
  IF a = 0 /\ b = 0 THEN 0
  ELSE (((a % 2) + (b % 2)) % 2) + 2 * Xor(a \div 2, b \div 2)

\* let sum = 0; for (const byte of buffer) sum ^= byte
RECURSIVE _checksum(_)
_checksum(buffer) ==
  IF buffer = <<>> THEN 0 ELSE Xor(Head(buffer), _checksum(Tail(buffer)))

\* `${index}` of a non-negative integer: its decimal digits, no padding
RECURSIVE ToDecimal(_)
ToDecimal(n) ==
  IF n < 10 THEN <<Digit(n)>> ELSE ToDecimal(n \div 10) \o <<Digit(n % 10)>>

\* Buffer.from([n, ...]) keeps the low 8 bits of each element
ToByte(n) == n % 256

_buildFrame(index, payload) ==
  LET data == ToDecimal(index) \o <<PLUS>> \o payload
      size == <<ToByte(Len(data)), 0>>
      checksum == <<ToByte(_checksum(data \o size))>>
  IN <<STX>> \o size \o data \o checksum \o <<ETX>>

\* The codec before it has been handed anything
NoCodec ==
  [stage |-> "idle", built |-> FALSE, index |-> 0, command |-> <<>>,
   err |-> <<>>, data |-> <<>>, frame |-> <<>>, message |-> DecodeError("none")]

\* ------------------------------------------------------------------------
\* Chunks the controller can send
\* ------------------------------------------------------------------------
REON == <<82, 69, 79, 78>>
ZeroZero == <<Digit(0), Digit(0)>>

RECURSIVE Join(_, _)
Join(fields, sep) ==
  IF Len(fields) = 1 THEN Head(fields)
  ELSE Head(fields) \o <<sep>> \o Join(Tail(fields), sep)

\* STX, size, padding, two index digits, '+', command, '+', err/version, '+',
\* data, checksum, ETX. The decoder does not read the checksum byte.
InboundFrame(index, command, err, data) ==
  LET payload == <<Digit(index \div 10), Digit(index % 10)>> \o <<PLUS>>
                   \o command \o <<PLUS>> \o err \o <<PLUS>> \o data
  IN <<STX, Len(payload) % 256, 0>> \o payload \o <<0, ETX>>

\* data of an event: eventCode ] tagId ] . ] . ] . ] way
EventData(code, tagId, way) ==
  Join(<<code, tagId, <<Digit(0)>>, <<Digit(0)>>, <<Digit(0)>>, way>>, BRACKET)

Chunks ==
  { InboundFrame(1, REON, ZeroZero, EventData(<<Digit(0)>>, <<Digit(1)>>, <<Digit(2)>>)),
    InboundFrame(1, REON, ZeroZero, EventData(<<Digit(0)>>, <<Digit(2)>>, <<Digit(3)>>)),
    InboundFrame(1, REON, ZeroZero, EventData(<<Digit(0)>>, <<Digit(2)>>, <<Digit(7)>>)),
    InboundFrame(1, REON, ZeroZero, EventData(<<Digit(0)>>, <<Digit(3)>>, <<Digit(2)>>)),
    InboundFrame(1, REON, ZeroZero, EventData(<<Digit(0)>>, <<120>>, <<Digit(2)>>)),
    InboundFrame(1, REON, ZeroZero, <<Digit(8), Digit(1)>>),
    InboundFrame(1, REON, ZeroZero, <<Digit(8), Digit(2)>>),
    InboundFrame(1, REON, ZeroZero, <<Digit(5)>>),
    InboundFrame(1, <<82, 81>>, ZeroZero, <<>>),
    <<STX, ETX>>,
    <<STX, 4, 0, Digit(0), Digit(1), PLUS, 82, 81, 0, ETX>> }

\* ------------------------------------------------------------------------
\* TurnstileOrchestrator: decisions
\* ------------------------------------------------------------------------
\* switch (eventCode) of processMessage, after the REON test
EventKind(msg) ==
  IF msg.command # REON THEN "notREON"
  ELSE LET eventCode == FieldInt(Split(msg.data, BRACKET), 0) IN
       IF eventCode.nan THEN "other"
       ELSE IF eventCode.val = RFID_READ THEN "rfid"
       ELSE IF eventCode.val = TURN_START THEN "turnStart"
       ELSE IF eventCode.val = TURN_END THEN "turnEnd"
       ELSE "other"

\* isLocked() as seen by handleRFID, ignored
lockGateOpen(m, now) == "pass"

\* this.lockfile.isLocked() as the engine runs it: the stat of the marker and
\* the removal of an expired marker are two file-system operations, and the
\* import process can run between them
lockGate(m, now) ==
  IF isLocked(m, now) THEN "deny"
  ELSE IF LockExpired(m, now) THEN "unlink"
  ELSE "pass"

\* The released test placed before the admin test
tagDecisionReleasedFirst(tag) ==
  IF ~tag.present THEN "denyGeneric"
  ELSE IF ~tag.released THEN "denyStatus"
  ELSE IF tag.admin THEN "allow"
  ELSE "spamCheck"

\* handleRFID after getByCredential
tagDecision(tag) ==
  IF ~tag.present THEN "denyGeneric"
  ELSE IF tag.admin THEN "allow"
  ELSE IF ~tag.released THEN "denyStatus"
  ELSE "spamCheck"

\* Anti-spam that never blocks
checkAccessSpamProtectionOff(a, userId, now) == FALSE

\* checkAccessSpamProtection
checkAccessSpamProtection(a, userId, now) ==
  IF ~HasAccess(a, userId) THEN FALSE
  ELSE getLastAccessFromUserId(a, userId).timestamp + DELAY_TOLERANCE * 2 * 60 > now

\* currentDate.getDay(), 0 = Sunday
getDay(now) == (now \div 86400) % 7

\* calculateClassTimeWindow: setHours(hours, minutes, 0, 0) on today's date
classStartDate(startMinutes, now) ==
  (now - (now % 86400)) + ((startMinutes \div 60) * 3600) + ((startMinutes % 60) * 60)
windowStart(startMinutes, now) == classStartDate(startMinutes, now) - DELAY_TOLERANCE * 60
windowEndAtStart(startMinutes, now) == classStartDate(startMinutes, now)
windowEnd(startMinutes, now) == classStartDate(startMinutes, now) + DELAY_TOLERANCE * 60

\* validateUserSchedule
validateUserSchedule(c, userId, now) ==
  LET today == weekDays[getDay(now) + 1]
      rows == getClassesFromUserIdAndWeekDay(c, userId, today)
  IN /\ rows # {}
     /\ \E row \in rows :
          now >= windowStart(row.start, now) /\ now <= windowEnd(row.start, now)

\* allowAccess that records the pending turn whatever the direction
allowAccessAlwaysPending(index, way, status, tagId, pending) ==
  [cmd |-> NoCommand, pending |-> WaitingToTurn(index, tagId)]

\* allowAccess that takes every direction other than exit for an entry
allowAccessAnyWay(index, way, status, tagId, pending) ==
  IF ~way.nan /\ way.val = EXIT
    THEN [cmd |-> allowExit(index, status), pending |-> WaitingToTurn(index, tagId)]
    ELSE [cmd |-> allowEntry(index, status), pending |-> WaitingToTurn(index, tagId)]

\* allowAccess: the command sent and the value of waitingToTurn afterwards
allowAccess(index, way, status, tagId, pending) ==
  IF ~way.nan /\ way.val = ENTRY
    THEN [cmd |-> allowEntry(index, status), pending |-> WaitingToTurn(index, tagId)]
  ELSE IF ~way.nan /\ way.val = EXIT
    THEN [cmd |-> allowExit(index, status), pending |-> WaitingToTurn(index, tagId)]
  ELSE [cmd |-> NoCommand, pending |-> pending]

\* ------------------------------------------------------------------------
\* TurnstileOrchestrator: event handling
\* ------------------------------------------------------------------------
FreeHandler ==
  [pc |-> "free", index |-> NaN, tagId |-> 0, way |-> NaN, now |-> 0,
   userId |-> 0, status |-> "", admin |-> FALSE, lookups |-> 0, locked |-> FALSE]

Busy(h) == handlers[h].pc # "free"
\* A synchronous segment of the process is running (inside isLocked())
InSyncSegment == \E h \in HandlerIds : handlers[h].pc = "unlink"
EngineReady == proc = "running" /\ ~InSyncSegment

\* What 'data' listeners receive for each chunk
Messages == [chunk \in Chunks |-> _readResponse(chunk)]
Decoded(chunk) == Messages[chunk]
\* The handling of a new event takes the first free slot
FirstFree(h) == ~Busy(h) /\ \A g \in HandlerIds : g < h => Busy(g)

\* tcpClient 'data' listener: this.emit('data', this._readResponse(data)).
\* The decoder throws inside the socket's 'data' callback; nothing catches it
\* and the 'uncaughtException' handler calls process.exit(1).
DeliverUndecodable ==
  /\ EngineReady
  /\ \E chunk \in Chunks :
       /\ ~Decoded(chunk).ok
       /\ proc' = "exited"
       /\ done' = Outcome("undecodable", FALSE, FALSE, NoCommand, 0, FALSE, waitingToTurn)
  /\ UNCHANGED <<ioVars, clock, lockVars, dbVars, runs, waitingToTurn, handlers>>

\* A handling of ignored events that drops the pending turn
DeliverIgnoredClears ==
  /\ EngineReady
  /\ \E chunk \in Chunks :
       /\ Decoded(chunk).ok
       /\ EventKind(Decoded(chunk)) \in {"notREON", "other"}
       /\ done' = Outcome(EventKind(Decoded(chunk)), FALSE, FALSE, NoCommand, 0,
                          FALSE, waitingToTurn)
  /\ waitingToTurn' = NoTurn
  /\ UNCHANGED <<ioVars, clock, lockVars, dbVars, runs, proc, handlers>>

\* processMessage: a command other than REON, or an event code that is none
\* of 0, 81, 82
DeliverIgnored ==
  /\ EngineReady
  /\ \E chunk \in Chunks :
       /\ Decoded(chunk).ok
       /\ EventKind(Decoded(chunk)) \in {"notREON", "other"}
       /\ done' = Outcome(EventKind(Decoded(chunk)), FALSE, FALSE, NoCommand, 0,
                          FALSE, waitingToTurn)
  /\ UNCHANGED <<ioVars, clock, lockVars, dbVars, runs, proc, waitingToTurn, handlers>>

\* handleTurnEnd that keeps the pending turn
DeliverTurnEndKeeps ==
  /\ EngineReady
  /\ \E chunk \in Chunks :
       /\ Decoded(chunk).ok
       /\ EventKind(Decoded(chunk)) = "turnEnd"
       /\ done' = Outcome("turnEnd", FALSE, FALSE, NoCommand, 0, FALSE, waitingToTurn)
  /\ UNCHANGED <<ioVars, clock, lockVars, dbVars, runs, proc, handlers, waitingToTurn>>

\* handleTurnEnd
DeliverTurnEnd ==
  /\ EngineReady
  /\ \E chunk \in Chunks :
       /\ Decoded(chunk).ok
       /\ EventKind(Decoded(chunk)) = "turnEnd"
       /\ waitingToTurn' = NoTurn
       /\ done' = Outcome("turnEnd", FALSE, FALSE, NoCommand, 0, FALSE, waitingToTurn)
  /\ UNCHANGED <<ioVars, clock, lockVars, dbVars, runs, proc, handlers>>

\* handleRFID up to its first await
DeliverRFID(h) ==
  /\ EngineReady
  /\ FirstFree(h)
  /\ \E chunk \in Chunks :
       LET msg == Decoded(chunk) IN
       /\ msg.ok
       /\ EventKind(msg) = "rfid"
       /\ LET data == Split(msg.data, BRACKET)
              tagId == FieldInt(data, 1)
              way == FieldInt(data, 5)
              gate == lockGate(marker, clock)
          IN
          IF tagId.nan
            THEN /\ done' = Outcome("rfid", FALSE, FALSE, NoCommand, 0, FALSE, waitingToTurn)
                 /\ handlers' = handlers
          ELSE IF gate = "deny"
            THEN /\ done' = Outcome("rfid", TRUE, isLocked(marker, clock),
                      denyAccess(msg.index, "waitSystemIsUpdating"), 0, FALSE,
                      waitingToTurn)
                 /\ handlers' = handlers
          ELSE /\ done' = NothingDone
               /\ handlers' = [handlers EXCEPT ![h] =
                    [FreeHandler EXCEPT !.pc = IF gate = "unlink" THEN "unlink" ELSE "tag",
                                        !.index = msg.index, !.tagId = tagId.val,
                                        !.way = way, !.now = clock,
                                        !.locked = isLocked(marker, clock)]]
  /\ UNCHANGED <<ioVars, clock, lockVars, dbVars, runs, proc, waitingToTurn>>

\* isLocked() found an expired marker: this.release() removes whatever marker
\* is there now, isLocked() returns false and getByCredential is called
RfidUnlink(h) ==
  /\ proc = "running"
  /\ handlers[h].pc = "unlink"
  /\ marker' = release(marker)
  /\ handlers' = [handlers EXCEPT ![h].pc = "tag"]
  /\ done' = NothingDone
  /\ UNCHANGED <<ioVars, clock, overdue, dbVars, runs, proc, waitingToTurn>>

\* The handling by h ends: cmd was sent (or nothing was)
Finish(h, event, cmd, lookups, created) ==
  /\ handlers' = [handlers EXCEPT ![h] = FreeHandler]
  /\ done' = [Outcome(event, TRUE, handlers[h].locked, cmd, lookups, created,
                      waitingToTurn)
                EXCEPT !.tagId = handlers[h].tagId, !.way = handlers[h].way,
                       !.admin = handlers[h].admin]

\* The handling by h ends right after getByCredential; admin tells whether
\* the tag found is an admin's
FinishTag(h, cmd, lookups, admin) ==
  /\ handlers' = [handlers EXCEPT ![h] = FreeHandler]
  /\ done' = [Outcome("rfid", TRUE, handlers[h].locked, cmd, lookups, FALSE,
                      waitingToTurn)
                EXCEPT !.tagId = handlers[h].tagId, !.way = handlers[h].way,
                       !.admin = admin]

\* A repository call of the handling by h rejects: processMessage catches
\* the error and logs it
Reject(h, event, lookups) ==
  /\ handlers' = [handlers EXCEPT ![h] = FreeHandler]
  /\ done' = [Outcome(event, TRUE, handlers[h].locked, NoCommand, lookups, FALSE,
                      waitingToTurn)
                EXCEPT !.tagId = handlers[h].tagId, !.way = handlers[h].way,
                       !.rejected = TRUE]

\* const tag = await this.tagService.getByCredential(...) and what follows
\* it up to the next await
RfidTag(h) ==
  /\ EngineReady
  /\ handlers[h].pc = "tag"
  /\ \E ok \in BOOLEAN :
       LET me == handlers[h]
           tag == getByCredential(tags, me.tagId)
           what == tagDecision(tag)
           allowed == allowAccess(me.index, me.way, tag.status, me.tagId, waitingToTurn)
       IN
       /\ IF ~ok
            THEN Reject(h, "rfid", me.lookups + 1)
                 /\ waitingToTurn' = waitingToTurn
          ELSE IF what = "denyGeneric"
            THEN FinishTag(h, denyAccessDefault(me.index), me.lookups + 1, FALSE)
                 /\ waitingToTurn' = waitingToTurn
          ELSE IF what = "allow"
            THEN FinishTag(h, allowed.cmd, me.lookups + 1, tag.admin)
                 /\ waitingToTurn' = allowed.pending
          ELSE IF what = "denyStatus"
            THEN FinishTag(h, denyAccess(me.index, tag.status), me.lookups + 1, tag.admin)
                 /\ waitingToTurn' = waitingToTurn
          ELSE /\ handlers' = [handlers EXCEPT ![h] =
                    [@ EXCEPT !.pc = "spam", !.userId = tag.userId, !.admin = tag.admin,
                              !.status = tag.status, !.lookups = @ + 1]]
               /\ done' = NothingDone
               /\ waitingToTurn' = waitingToTurn
  /\ UNCHANGED <<ioVars, clock, lockVars, dbVars, runs, proc>>

\* An anti-spam deny that drops the pending turn
RfidSpamDropsPending(h) ==
  /\ EngineReady
  /\ handlers[h].pc = "spam"
  /\ \E ok \in BOOLEAN :
       LET me == handlers[h] IN
       /\ IF ~ok
            THEN Reject(h, "rfid", me.lookups + 1) /\ waitingToTurn' = waitingToTurn
          ELSE IF checkAccessSpamProtection(accesses, me.userId, me.now)
            THEN Finish(h, "rfid", denyAccess(me.index, "onlyOneAccess"),
                        me.lookups + 1, FALSE)
                 /\ waitingToTurn' = NoTurn
          ELSE /\ handlers' = [handlers EXCEPT ![h] =
                    [@ EXCEPT !.pc = "classes", !.lookups = @ + 1]]
               /\ done' = NothingDone
               /\ waitingToTurn' = waitingToTurn
  /\ UNCHANGED <<ioVars, clock, lockVars, dbVars, runs, proc>>

\* const isBlocked = await this.checkAccessSpamProtection(...)
RfidSpam(h) ==
  /\ EngineReady
  /\ handlers[h].pc = "spam"
  /\ \E ok \in BOOLEAN :
       LET me == handlers[h] IN
       /\ IF ~ok
            THEN Reject(h, "rfid", me.lookups + 1)
          ELSE IF checkAccessSpamProtection(accesses, me.userId, me.now)
            THEN Finish(h, "rfid", denyAccess(me.index, "onlyOneAccess"),
                        me.lookups + 1, FALSE)
          ELSE /\ handlers' = [handlers EXCEPT ![h] =
                    [@ EXCEPT !.pc = "classes", !.lookups = @ + 1]]
               /\ done' = NothingDone
  /\ UNCHANGED <<ioVars, clock, lockVars, dbVars, runs, proc, waitingToTurn>>

\* const hasValidClass = await this.validateUserSchedule(...)
RfidClasses(h) ==
  /\ EngineReady
  /\ handlers[h].pc = "classes"
  /\ \E ok \in BOOLEAN :
       LET me == handlers[h]
           allowed == allowAccess(me.index, me.way, me.status, me.tagId, waitingToTurn)
       IN
       /\ IF ~ok
            THEN Reject(h, "rfid", me.lookups + 1)
                 /\ waitingToTurn' = waitingToTurn
          ELSE IF ~validateUserSchedule(classes, me.userId, me.now)
            THEN Finish(h, "rfid", denyAccess(me.index, "outOfSchedule"),
                        me.lookups + 1, FALSE)
                 /\ waitingToTurn' = waitingToTurn
          ELSE Finish(h, "rfid", allowed.cmd, me.lookups + 1, FALSE)
               /\ waitingToTurn' = allowed.pending
  /\ UNCHANGED <<ioVars, clock, lockVars, dbVars, runs, proc>>

\* Turn-start handlings suspended at an await
TurnStartsInFlight ==
  Cardinality({h \in HandlerIds : handlers[h].pc \in {"tsTag", "tsCreate"}})

\* handleTurnStart up to its first await, while fewer than cap Access rows
\* are stored or about to be
DeliverTurnStartUpTo(h, cap) ==
  /\ EngineReady
  /\ FirstFree(h)
  /\ Len(accesses) + TurnStartsInFlight < cap
  /\ \E chunk \in Chunks :
       LET msg == Decoded(chunk) IN
       /\ msg.ok
       /\ EventKind(msg) = "turnStart"
       /\ IF ~waitingToTurn.set
            THEN /\ done' = Outcome("turnStart", FALSE, FALSE, NoCommand, 0, FALSE,
                                    waitingToTurn)
                 /\ handlers' = handlers
            ELSE /\ done' = NothingDone
                 /\ handlers' = [handlers EXCEPT ![h] =
                      [FreeHandler EXCEPT !.pc = "tsTag", !.index = msg.index,
                                          !.tagId = waitingToTurn.tagId, !.now = clock]]
  /\ UNCHANGED <<ioVars, clock, lockVars, dbVars, runs, proc, waitingToTurn>>

DeliverTurnStart(h) == DeliverTurnStartUpTo(h, MaxAccesses)

\* const tag = await this.tagService.getByCredential(...) of handleTurnStart
TsTag(h) ==
  /\ EngineReady
  /\ handlers[h].pc = "tsTag"
  /\ \E ok \in BOOLEAN :
       LET me == handlers[h]
           tag == getByCredential(tags, me.tagId)
       IN
       /\ IF ~ok
            THEN Reject(h, "turnStart", 1)
                 /\ waitingToTurn' = waitingToTurn
          ELSE IF ~tag.present \/ tag.admin
            THEN Finish(h, "turnStart", NoCommand, 1, FALSE)
                 /\ waitingToTurn' = NoTurn
          ELSE /\ handlers' = [handlers EXCEPT ![h] =
                    [@ EXCEPT !.pc = "tsCreate", !.userId = tag.userId, !.lookups = 1]]
               /\ done' = NothingDone
               /\ waitingToTurn' = waitingToTurn
  /\ UNCHANGED <<ioVars, clock, lockVars, dbVars, runs, proc>>

\* await this.accessService.create({ userId, timestamp: currentDate }) inside
\* try / catch / finally { this.waitingToTurn = null }
TsCreate(h) ==
  /\ EngineReady
  /\ handlers[h].pc = "tsCreate"
  /\ \E ok \in BOOLEAN :
       LET me == handlers[h] IN
       /\ accesses' = IF ok THEN accessCreate(accesses, me.userId, me.now) ELSE accesses
       /\ waitingToTurn' = NoTurn
       /\ Finish(h, "turnStart", NoCommand, 1, ok)
  /\ UNCHANGED <<ioVars, clock, lockVars, tags, classes, runs, proc>>

\* ------------------------------------------------------------------------
\* Specifications
\* ------------------------------------------------------------------------
InitialTags ==
  [u \in Users |->
     IF u = 1 THEN Tag(1, 1, TRUE, "OK", FALSE) ELSE Tag(2, 2, FALSE, "ADMIN", TRUE)]
InitialClasses == {ClassRow(1, "sunday", 1)}

Init ==
  /\ clock = 0
  /\ marker = NoMarker
  /\ overdue = FALSE
  /\ tags = InitialTags
  /\ classes = InitialClasses
  /\ accesses = <<>>
  /\ runs = [r \in RunIds |-> IdleRun]
  /\ proc = "running"
  /\ waitingToTurn = NoTurn
  /\ handlers = [h \in HandlerIds |-> FreeHandler]
  /\ done = NothingDone
  /\ codec = NoCodec
  /\ tcp = NoClient

SyncStep ==
  \/ \E r \in RunIds : RunAcquire(r)
  \/ \E r \in RunIds : RunGet(r)
  \/ \E r \in RunIds : RunUpsertTag(r)
  \/ \E r \in RunIds : RunDeleteClasses(r)
  \/ \E r \in RunIds : RunCreateClass(r)
  \/ \E r \in RunIds : RunFetch(r)
  \/ \E r \in RunIds : RunPost(r)
  \/ \E r \in RunIds : RunUpdate(r)

EngineStep ==
  \/ DeliverUndecodable
  \/ DeliverIgnored
  \/ DeliverTurnEnd
  \/ \E h \in HandlerIds : DeliverRFID(h)
  \/ \E h \in HandlerIds : RfidUnlink(h)
  \/ \E h \in HandlerIds : RfidTag(h)
  \/ \E h \in HandlerIds : RfidSpam(h)
  \/ \E h \in HandlerIds : RfidClasses(h)
  \/ \E h \in HandlerIds : DeliverTurnStart(h)
  \/ \E h \in HandlerIds : TsTag(h)
  \/ \E h \in HandlerIds : TsCreate(h)

Next == Tick \/ SyncStep \/ EngineStep

Spec == Init /\ [][Next]_vars

PullStep(r) ==
  \/ RunAcquire(r)
  \/ RunGet(r)
  \/ RunUpsertTag(r)
  \/ RunDeleteClasses(r)
  \/ RunCreateClass(r)

RfidStep(h) ==
  \/ DeliverRFID(h)
  \/ RfidUnlink(h)
  \/ RfidTag(h)
  \/ RfidSpam(h)
  \/ RfidClasses(h)

TurnStep(h) ==
  \/ DeliverTurnStart(h)
  \/ TsTag(h)
  \/ TsCreate(h)

\* The engine when every handling ends before the next event arrives
SerialStep ==
  \/ DeliverUndecodable
  \/ DeliverIgnored
  \/ DeliverTurnEnd
  \/ RfidStep(1)
  \/ TurnStep(1)

\* The database after the engine has recorded one passage of user 1
InitSync ==
  /\ clock = 0
  /\ marker = NoMarker
  /\ overdue = FALSE
  /\ tags = InitialTags
  /\ classes = InitialClasses
  /\ accesses = accessCreate(<<>>, 1, 0)
  /\ runs = [r \in RunIds |-> IdleRun]
  /\ proc = "running"
  /\ waitingToTurn = NoTurn
  /\ handlers = [h \in HandlerIds |-> FreeHandler]
  /\ done = NothingDone
  /\ codec = NoCodec
  /\ tcp = NoClient

\* The engine with overlapping handlings, next to a synchronization run that
\* takes the lock and stays in its pull phase
SpecEngine == Init /\ [][Tick \/ EngineStep \/ RunAcquire(1)]_vars
\* The engine, one handling at a time, next to one run's pull phase
SpecTurnstile == Init /\ [][Tick \/ SerialStep \/ PullStep(1)]_vars
\* The pull phases of the runs next to the engine's RFID handling
SpecLock == Init /\ [][Tick \/ PullStep(1) \/ PullStep(2) \/ RfidStep(1)]_vars
\* A run that may stop at its GET while holding the lock, a later run that
\* tries to acquire it, and RFID reads, while time keeps passing
SpecExpiry ==
  /\ Init
  /\ [][Tick \/ RunAcquire(1) \/ RunGet(1) \/ RunAcquire(2) \/ RfidStep(1)]_vars
  /\ WF_vars(Tick)
\* The synchronization runs, pull and push phase
SpecSync == InitSync /\ [][Tick \/ SyncStep]_vars

\* The engine after one admission of tag 1: its turn is pending
InitTurns ==
  /\ clock = 0
  /\ marker = NoMarker
  /\ overdue = FALSE
  /\ tags = InitialTags
  /\ classes = InitialClasses
  /\ accesses = <<>>
  /\ runs = [r \in RunIds |-> IdleRun]
  /\ proc = "running"
  /\ waitingToTurn = WaitingToTurn(Num(1), 1)
  /\ handlers = [h \in HandlerIds |-> FreeHandler]
  /\ done = NothingDone
  /\ codec = NoCodec
  /\ tcp = NoClient

\* Turn-start and turn-cancel events after that admission, with no further
\* RFID read
SpecTurns ==
  InitTurns /\ [][\/ Tick
                  \/ DeliverTurnEnd
                  \/ \E h \in HandlerIds : DeliverTurnStartUpTo(h, MaxTurnStarts)
                  \/ \E h \in HandlerIds : TsTag(h)
                  \/ \E h \in HandlerIds : TsCreate(h)]_vars

\* The database with a passage of user 1 already granted (id 1) and a later
\* one still waiting (id 2)
InitPush ==
  /\ clock = 0
  /\ marker = NoMarker
  /\ overdue = FALSE
  /\ tags = InitialTags
  /\ classes = InitialClasses
  /\ accesses = accessCreate(updateStatus(accessCreate(<<>>, 1, 0), 1, "granted"), 1, 0)
  /\ runs = [r \in RunIds |-> IdleRun]
  /\ proc = "running"
  /\ waitingToTurn = NoTurn
  /\ handlers = [h \in HandlerIds |-> FreeHandler]
  /\ done = NothingDone
  /\ codec = NoCodec
  /\ tcp = NoClient

\* The synchronization runs over that database
SpecPush == InitPush /\ [][SyncStep]_vars

\* schedule.scheduleJob(env.CRON_PARAMETERS, ...): the job fires again after
\* a run has ended
RunAgain(r) ==
  /\ Ended(r)
  /\ runs' = [runs EXCEPT ![r] = IdleRun]
  /\ done' = NothingDone
  /\ UNCHANGED <<ioVars, clock, lockVars, dbVars, engineVars>>

\* The answers of an API that is up: a list with at least one valid record
\* to the GET, and to the POST one acknowledgement or more for every event
\* posted and for nothing else
ValidLists ==
  {resp \in GetResponses : resp.kind = "list" /\ Validated[resp] # <<>>}
Acknowledging(batch) ==
  {resp \in PostResponses :
     resp.kind = "acks" /\ {ack[1] : ack \in resp.acks} = batch}

\* The steps of run r when the job keeps firing and the API is up
ServedStep(r) ==
  \/ RunAcquire(r)
  \/ RunGetFrom(r, ValidLists)
  \/ RunUpsertTag(r)
  \/ RunDeleteClasses(r)
  \/ RunCreateClass(r)
  \/ RunFetch(r)
  \/ RunPostFrom(r, Acknowledging(runs[r].batch))
  \/ RunUpdate(r)
  \/ RunAgain(r)

\* The runs, fired again and again against an API that is up, while the turn
\* pending in the engine may be completed at any moment: every await of a
\* run settles and the job fires again, but nothing makes a query of the
\* database succeed
SpecServed ==
  /\ InitTurns
  /\ [][\/ \E r \in RunIds : ServedStep(r)
         \/ TurnStep(1)]_vars
  /\ \A r \in RunIds : WF_vars(ServedStep(r))

\* The database does not reject the queries of the push phase for ever
StoreAnswers ==
  \A r \in RunIds :
    /\ SF_vars(RunFetch(r) /\ runs'[r].pc # "failed")
    /\ SF_vars(RunUpdate(r) /\ runs'[r].missed = runs[r].missed)

\* ------------------------------------------------------------------------
\* The admission decision over chosen tables and instants
\* ------------------------------------------------------------------------
DayIndex(day) == CHOOSE i \in 0..6 : weekDays[i + 1] = day
\* Classes of user 1: start minute and weekday. The first lies inside its
\* day, the second starts at midnight, the third in the last minute of a day
DecideSlots == {<<3, "sunday">>, <<0, "monday">>, <<1439, "sunday">>}
SlotStart(slot) == DayIndex(slot[2]) * 86400 + slot[1] * 60
SlotOffsets ==
  {-(DELAY_TOLERANCE + 1) * 60, -DELAY_TOLERANCE * 60, 0, DELAY_TOLERANCE * 60,
   DELAY_TOLERANCE * 60 + 30, (DELAY_TOLERANCE + 1) * 60}
\* Instants after a passage recorded at second 0
SpamInstants == {(2 * DELAY_TOLERANCE - 1) * 60, (2 * DELAY_TOLERANCE + 1) * 60}
DecideClocks ==
  {SlotStart(slot) + d : slot \in DecideSlots, d \in SlotOffsets} \cup SpamInstants
DecideTags ==
  {[u \in Users |->
      IF u = 1 THEN Tag(1, 1, released, "OK", admin)
               ELSE Tag(2, 2, FALSE, "ADMIN", TRUE)] :
     released \in BOOLEAN, admin \in BOOLEAN}
DecideClasses == {{}} \cup {{ClassRow(slot[1], slot[2], 1)} : slot \in DecideSlots}
DecideAccesses == {<<>>, accessCreate(<<>>, 1, 0)}

InitDecide ==
  /\ clock \in DecideClocks
  /\ marker = NoMarker
  /\ overdue = FALSE
  /\ tags \in DecideTags
  /\ classes \in DecideClasses
  /\ accesses \in DecideAccesses
  /\ runs = [r \in RunIds |-> IdleRun]
  /\ proc = "running"
  /\ waitingToTurn = NoTurn
  /\ handlers = [h \in HandlerIds |-> FreeHandler]
  /\ done = NothingDone
  /\ codec = NoCodec
  /\ tcp = NoClient

\* handleRFID alone, on one read at a time, with the lock free
SpecDecide ==
  InitDecide /\ [][DeliverRFID(1) \/ RfidTag(1) \/ RfidSpam(1) \/ RfidClasses(1)]_vars

\* handleRFID alone, on one read at a time, with no marker, with a marker
\* written at the instant of the read and with one older than the timeout
InitRules ==
  /\ clock \in DecideClocks
  /\ marker \in {NoMarker, [exists |-> TRUE, mtime |-> clock],
                 [exists |-> TRUE, mtime |-> clock - timeoutSeconds - 1]}
  /\ overdue = LockExpired(marker, clock)
  /\ tags \in DecideTags
  /\ classes \in DecideClasses
  /\ accesses \in DecideAccesses
  /\ runs = [r \in RunIds |-> IdleRun]
  /\ proc = "running"
  /\ waitingToTurn = NoTurn
  /\ handlers = [h \in HandlerIds |-> FreeHandler]
  /\ done = NothingDone
  /\ codec = NoCodec
  /\ tcp = NoClient

SpecRules ==
  InitRules /\ [][DeliverRFID(1) \/ RfidUnlink(1) \/ RfidTag(1) \/ RfidSpam(1)
                    \/ RfidClasses(1)]_vars

\* ------------------------------------------------------------------------
\* The pull phase, run after run, over chosen tables
\* ------------------------------------------------------------------------
\* Tags left by earlier imports: user 2 holds credential 1, user 1 holds 3
ShiftedTags ==
  [u \in Users |->
     IF u = 1 THEN Tag(1, 3, TRUE, "OK", FALSE) ELSE Tag(2, 1, FALSE, "ADMIN", TRUE)]

InitImport ==
  /\ clock = 0
  /\ marker = NoMarker
  /\ overdue = FALSE
  /\ tags \in {InitialTags, ShiftedTags}
  /\ classes \in {{}, InitialClasses, InitialClasses \cup {ClassRow(3, "monday", 2)}}
  /\ accesses = <<>>
  /\ runs = [r \in RunIds |-> IdleRun]
  /\ proc = "running"
  /\ waitingToTurn = NoTurn
  /\ handlers = [h \in HandlerIds |-> FreeHandler]
  /\ done = NothingDone
  /\ codec = NoCodec
  /\ tcp = NoClient

\* Two invocations of runImport, the second after the first has released
SpecImport == InitImport /\ [][PullStep(1) \/ PullStep(2)]_vars

\* ------------------------------------------------------------------------
\* TCPClient, and the 'close' handler of the orchestrator
\* ------------------------------------------------------------------------
\* this.socket && !this.socket.destroyed
Live(t) == t.socket \in {"connecting", "connected"}

\* start() runs in the turn that constructed the client, before any socket
\* event; the promise continuations and write callbacks that are due run
\* before the event loop handles another socket event or call of the engine
Settled(t) == t.started /\ t.cleanups = 0

\* connect() that never opens a socket
connectNever(t) == t

\* connect() without the test of the socket it holds
connectAlways(t) == [t EXCEPT !.socket = "connecting", !.gen = 1 - @]

\* TCPClient.connect up to its await: a live socket is reused, otherwise
\* net.createConnection opens a new one
connect(t) ==
  IF Live(t) THEN t ELSE [t EXCEPT !.socket = "connecting", !.gen = 1 - @]

\* TCPClient._cleanup: a live socket is destroyed, which fails the writes
\* buffered on it, strands the send() waiting for it and schedules its
\* 'close' event; this.socket = null
_cleanup(t) ==
  IF Live(t)
    THEN [t EXCEPT !.socket = "none", !.closes = @ + 1,
                   !.cleanups = @ + t.writes, !.writes = 0, !.resume = FALSE]
    ELSE [t EXCEPT !.socket = "none"]

\* The socket emits 'connect': the race of connect() resolves, the buffered
\* payloads are written, and a suspended send() writes its payload, which
\* can fail (_handleError)
SocketConnects ==
  /\ tcp.socket = "connecting"
  /\ Settled(tcp)
  /\ \E ok \in BOOLEAN :
       /\ ~ok => tcp.resume
       /\ tcp' = IF ok
            THEN [tcp EXCEPT !.socket = "connected", !.writes = 0,
                             !.resume = FALSE, !.last = "connect"]
            ELSE [_cleanup([tcp EXCEPT !.socket = "connected", !.writes = 0])
                    EXCEPT !.last = "writeFailed"]
  /\ UNCHANGED <<clock, lockVars, dbVars, runs, engineVars, done, codec>>

\* The connecting socket emits 'error' or 'timeout': _handleError or
\* _handleTimeout cleans up at once, the catch of the connect() that opened
\* the socket and the callbacks of the buffered writes clean up later
SocketFailsToConnect ==
  /\ tcp.socket = "connecting"
  /\ Settled(tcp)
  /\ \E why \in {"connectError", "connectTimeout"} :
       tcp' = [tcp EXCEPT !.socket = "none", !.closes = @ + 1,
                          !.cleanups = @ + 1 + tcp.writes, !.writes = 0,
                          !.resume = FALSE, !.last = why]
  /\ UNCHANGED <<clock, lockVars, dbVars, runs, engineVars, done, codec>>

\* A _cleanup() that was due runs, on whatever socket the client holds now
LateCleanup ==
  /\ tcp.started
  /\ tcp.cleanups > 0
  /\ tcp' = [_cleanup([tcp EXCEPT !.cleanups = @ - 1]) EXCEPT !.last = "lateCleanup"]
  /\ UNCHANGED <<clock, lockVars, dbVars, runs, engineVars, done, codec>>

\* The connected socket emits 'timeout' (30.5 s without data) or 'error'
SocketTimesOutOrErrs ==
  /\ tcp.socket = "connected"
  /\ Settled(tcp)
  /\ \E why \in {"timeout", "error"} :
       tcp' = [_cleanup(tcp) EXCEPT !.last = why]
  /\ UNCHANGED <<clock, lockVars, dbVars, runs, engineVars, done, codec>>

\* The controller closes the connection: the socket is destroyed while
\* this.socket still refers to it
RemoteClose ==
  /\ tcp.socket = "connected"
  /\ Settled(tcp)
  /\ tcp' = [tcp EXCEPT !.socket = "destroyed", !.closes = @ + 1, !.last = "end"]
  /\ UNCHANGED <<clock, lockVars, dbVars, runs, engineVars, done, codec>>

\* A destroyed socket emits 'close'; the handler registered by
\* initializeTurnstile calls this.turnstile.connect()
CloseEvent ==
  /\ tcp.started
  /\ tcp.closes > 0
  /\ tcp' = [connect([tcp EXCEPT !.closes = @ - 1]) EXCEPT !.last = "close"]
  /\ UNCHANGED <<clock, lockVars, dbVars, runs, engineVars, done, codec>>

\* TurnstileOrchestrator.start: await this.turnstile.connect(), after the
\* constructor of TurnstileClient has called connect() already
Start ==
  /\ ~tcp.started
  /\ tcp' = [connect([tcp EXCEPT !.started = TRUE]) EXCEPT !.last = "start"]
  /\ UNCHANGED <<clock, lockVars, dbVars, runs, engineVars, done, codec>>

\* TCPClient.send: connect() first; with a connected socket the write is
\* made and can fail, with a connecting socket the payload is buffered,
\* without a live socket a new one is opened and send() waits for it
Send ==
  /\ tcp.sends < MaxSends
  /\ Settled(tcp)
  /\ tcp.writes = 0 /\ ~tcp.resume
  /\ LET t == [tcp EXCEPT !.sends = @ + 1] IN
     CASE tcp.socket = "connected" ->
            \E ok \in BOOLEAN :
              tcp' = IF ok THEN [connect(t) EXCEPT !.last = "sent"]
                     ELSE [_cleanup(connect(t)) EXCEPT !.last = "writeFailed"]
       [] tcp.socket = "connecting" ->
            tcp' = [connect(t) EXCEPT !.writes = 1, !.last = "buffered"]
       [] OTHER ->
            tcp' = [connect(t) EXCEPT !.resume = TRUE, !.last = "sendConnect"]
  /\ UNCHANGED <<clock, lockVars, dbVars, runs, engineVars, done, codec>>

\* TCPClient.close
Close ==
  /\ tcp.shuts < MaxShuts
  /\ Settled(tcp)
  /\ tcp' = [_cleanup([tcp EXCEPT !.shuts = @ + 1]) EXCEPT !.last = "closed"]
  /\ UNCHANGED <<clock, lockVars, dbVars, runs, engineVars, done, codec>>

\* After TurnstileClient's constructor: connect() has opened the first socket
InitTransport ==
  /\ clock = 0
  /\ marker = NoMarker
  /\ overdue = FALSE
  /\ tags = InitialTags
  /\ classes = InitialClasses
  /\ accesses = <<>>
  /\ runs = [r \in RunIds |-> IdleRun]
  /\ proc = "running"
  /\ waitingToTurn = NoTurn
  /\ handlers = [h \in HandlerIds |-> FreeHandler]
  /\ done = NothingDone
  /\ codec = NoCodec
  /\ tcp = connect(NoClient)

\* The event loop delivers every 'close' event that is due
SpecTransport ==
  /\ InitTransport
  /\ [][\/ SocketConnects \/ SocketFailsToConnect \/ LateCleanup
        \/ SocketTimesOutOrErrs \/ RemoteClose \/ CloseEvent
        \/ Send \/ Close \/ Start]_vars
  /\ WF_vars(CloseEvent)

\* ------------------------------------------------------------------------
\* The codec over chosen fields and buffers
\* ------------------------------------------------------------------------
\* command + '+' + err + '+' + data, the payload the commands hand to _send
Payload(command, err, data) == command \o <<PLUS>> \o err \o <<PLUS>> \o data

\* Sequence numbers of one digit and of two
CodecIndexes == {0, 1, 9, 10, 42, 99}

\* Fields to send: commands REON and RQ, err 00 and 10, data that is empty,
\* a display message, and a text holding a '+'
CodecFields ==
  { [NoCodec EXCEPT !.stage = "fields", !.index = i, !.command = c,
                    !.err = e, !.data = d] :
      i \in CodecIndexes,
      c \in {REON, <<82, 81>>},
      e \in {ZeroZero, <<Digit(1), Digit(0)>>},
      d \in { <<>>,
              Join(<<<<Digit(3), Digit(0)>>, <<Digit(5)>>, <<88>>, <<Digit(1)>>>>,
                   BRACKET),
              <<Digit(1), PLUS, Digit(2)>> } }

\* A chunk as the controller frames it, with any checksum byte
Framed(payload, checksum) ==
  <<STX, ToByte(Len(payload)), 0>> \o payload \o <<checksum, ETX>>

\* Buffers received: a whole frame and frames lacking the separator after
\* the index, the command, the err/version field, and the last two of them,
\* each under three checksum bytes; the whole frame cut short, and with
\* another first or last byte
CodecBuffers ==
  LET RQ == <<82, 81>>
      ZeroOne == <<Digit(0), Digit(1)>>
      whole == ZeroOne \o <<PLUS>> \o Payload(RQ, ZeroZero, <<88>>)
      broken == { ZeroOne \o RQ \o <<PLUS>> \o ZeroZero \o <<PLUS, 88>>,
                  ZeroOne \o <<PLUS>> \o RQ \o ZeroZero \o <<PLUS, 88>>,
                  ZeroOne \o <<PLUS>> \o RQ \o <<PLUS>> \o ZeroZero,
                  ZeroOne \o <<PLUS>> \o RQ }
      checksums == {0, PLUS, 255}
  IN { Framed(p, c) : p \in broken \cup {whole}, c \in checksums }
       \cup { SubSeq(Framed(whole, 0), 1, n) : n \in 0..(MinFrameLength - 1) }
       \cup { <<b>> \o Tail(Framed(whole, c)) : b \in {0, ETX}, c \in checksums }
       \cup { SubSeq(Framed(whole, c), 1, Len(Framed(whole, c)) - 1) \o <<b>> :
                b \in {0, STX}, c \in checksums }

CodecReceived == { [NoCodec EXCEPT !.stage = "frame", !.frame = b] : b \in CodecBuffers }

InitCodec ==
  /\ clock = 0
  /\ marker = NoMarker
  /\ overdue = FALSE
  /\ tags = InitialTags
  /\ classes = InitialClasses
  /\ accesses = <<>>
  /\ runs = [r \in RunIds |-> IdleRun]
  /\ proc = "running"
  /\ waitingToTurn = NoTurn
  /\ handlers = [h \in HandlerIds |-> FreeHandler]
  /\ done = NothingDone
  /\ codec \in CodecFields \cup CodecReceived
  /\ tcp = NoClient

\* _send: the frame of the fields is built
BuildFrame ==
  /\ codec.stage = "fields"
  /\ codec' = [codec EXCEPT
       !.stage = "frame",
       !.built = TRUE,
       !.frame = _buildFrame(codec.index,
                             Payload(codec.command, codec.err, codec.data))]
  /\ UNCHANGED <<clock, lockVars, dbVars, runs, engineVars, done, tcp>>

\* the 'data' wiring of the constructor: the chunk goes through _readResponse
ReadResponse ==
  /\ codec.stage = "frame"
  /\ codec' = [codec EXCEPT !.stage = "message",
                            !.message = _readResponse(codec.frame)]
  /\ UNCHANGED <<clock, lockVars, dbVars, runs, engineVars, done, tcp>>

SpecCodec == InitCodec /\ [][BuildFrame \/ ReadResponse]_vars

\* ------------------------------------------------------------------------
\* The lock file over chosen markers and instants
\* ------------------------------------------------------------------------
\* Ages of a marker around the timeout, in seconds
LockAges == {0, 1, timeoutSeconds - 1, timeoutSeconds, timeoutSeconds + 1,
             2 * timeoutSeconds, 10 * timeoutSeconds}
LockMarkers == {NoMarker} \cup {[exists |-> TRUE, mtime |-> t] : t \in {0, 30, 45}}

InitLockfile ==
  /\ marker \in LockMarkers
  /\ clock \in {marker.mtime + age : age \in LockAges}
  /\ overdue = LockExpired(marker, clock)
  /\ tags = InitialTags
  /\ classes = InitialClasses
  /\ accesses = <<>>
  /\ runs = [r \in RunIds |-> IdleRun]
  /\ proc = "running"
  /\ waitingToTurn = NoTurn
  /\ handlers = [h \in HandlerIds |-> FreeHandler]
  /\ done = NothingDone
  /\ codec = NoCodec
  /\ tcp = NoClient

\* A call of lockfile.isLocked(): done.locked is the value returned
CallIsLocked ==
  /\ marker' = isLockedEffect(marker, clock)
  /\ done' = [NothingDone EXCEPT !.event = "isLocked",
                                 !.locked = isLocked(marker, clock)]
  /\ UNCHANGED <<ioVars, clock, overdue, dbVars, runs, engineVars>>

\* A call of lockfile.acquire(): done.locked is the value returned
CallAcquire ==
  /\ marker' = acquire(marker, clock).marker
  /\ done' = [NothingDone EXCEPT !.event = "acquire",
                                 !.locked = acquire(marker, clock).ok]
  /\ UNCHANGED <<ioVars, clock, overdue, dbVars, runs, engineVars>>

\* A call of lockfile.release()
CallRelease ==
  /\ marker' = release(marker)
  /\ done' = [NothingDone EXCEPT !.event = "release"]
  /\ UNCHANGED <<ioVars, clock, overdue, dbVars, runs, engineVars>>

SpecLockfile ==
  InitLockfile /\ [][CallIsLocked \/ CallAcquire \/ CallRelease \/ Tick]_vars

\* ------------------------------------------------------------------------
\* Properties
\* ------------------------------------------------------------------------
InFlight == {h \in HandlerIds : Busy(h)}
Pulling == {r \in RunIds : InPull(r)}

\* C1: turnstile events are handled one at a time: no handler starts while
\* the handler of an earlier event is still suspended at a repository call.
C1_OneHandlerAtATime == Cardinality(InFlight) <= 1

\* C2 as stated: at most one synchronization run is in its pull/merge phase
\* at any time, whatever the duration of the pull phase.
C2_AtMostOnePull == Cardinality(Pulling) <= 1

\* C2, amended: at most one synchronization run is in its pull/merge phase
\* as long as no lock marker has ever been older than timeoutSeconds.
C2_AtMostOnePullWithinTimeout == ~overdue => Cardinality(Pulling) <= 1

\* A run is refused the lock while another run is in its pull phase and the
\* marker has never expired
C2_Witness ==
  /\ ~overdue
  /\ \E r, q \in RunIds : r # q /\ InPull(r) /\ runs[q].sawLocked

\* C3: no allow command is sent to the controller while a synchronization
\* run is between its acquire() and its release().
C3_NoAllowDuringPull == IsAllow(done.cmd) => Pulling = {}

\* C4: every run that acquired the lock has released it by the time the run
\* has returned or failed.
C4_ReleasedWhenEnded ==
  \A r \in RunIds : (Ended(r) /\ runs[r].acquired) => runs[r].released

\* C5: a run that finds the lock held returns without sending any HTTP
\* request, without any repository write and without touching the lock
\* marker, and the run is never resumed afterwards.
C5_AbortWithoutSideEffects ==
  [][\A r \in RunIds :
       /\ (runs[r].pc = "idle" /\ runs'[r].pc # "idle" /\ isLocked(marker, clock))
            => /\ runs'[r] = [IdleRun EXCEPT !.pc = "aborted", !.sawLocked = TRUE]
               /\ marker' = marker
               /\ UNCHANGED dbVars
       /\ runs[r].pc = "aborted" => runs'[r] = runs[r]]_vars

\* A run was refused the lock, and the marker is still in place
C5_Witness == \E r \in RunIds : runs[r].sawLocked /\ marker.exists

\* C6: an RFID read with a parsable tagId handled while isLocked() is true
\* gets exactly the system-updating deny, makes no repository lookup and
\* leaves waitingToTurn as it was.
C6_LockedReadIsDenied ==
  (done.event = "rfid" /\ done.parsable /\ done.locked)
    => /\ done.cmd = denyAccess(Num(1), "waitSystemIsUpdating")
       /\ done.lookups = 0
       /\ ~done.created
       /\ waitingToTurn = done.before

\* An RFID read was handled while a run held the lock, with an authorization
\* pending
C6_Witness ==
  /\ done.event = "rfid" /\ done.parsable /\ done.locked
  /\ waitingToTurn.set

\* C7: an Access row is created only by the handling of a turn-start event,
\* a turn-start handling goes on to the repository only when waitingToTurn is
\* set, and waitingToTurn is set only by an RFID read that sent an allow.
C7_CreateOnlyOnTurnStart ==
  [][/\ Len(accesses') > Len(accesses)
          => /\ done'.event = "turnStart" /\ done'.created
             /\ \E h \in HandlerIds :
                  handlers[h].pc = "tsCreate" /\ handlers'[h] = FreeHandler
     /\ \A h \in HandlerIds :
          (~Busy(h) /\ handlers'[h].pc = "tsTag") => waitingToTurn.set
     /\ (waitingToTurn'.set /\ waitingToTurn' # waitingToTurn)
          => (done'.event = "rfid" /\ IsAllow(done'.cmd))]_vars

\* The handling of a turn start has created an Access row
C7_Witness == done.event = "turnStart" /\ done.created /\ Len(accesses) = 1

\* C8: an Access row changes status only while it is waiting: a granted or
\* revoked row is never updated again.
C8_StatusChangesOnce ==
  [][\A id \in 1..Len(accesses) :
       accesses[id].status # "waiting"
         => accesses'[id].status = accesses[id].status]_vars

\* C9: every RFID read whose tagId parses gets a command, an allow or a deny.
C9_ParsableReadGetsCommand ==
  (done.event = "rfid" /\ done.parsable) => done.cmd # NoCommand

\* C10: a chunk that fails decoding does not terminate the process.
C10_DecodeFailureKeepsRunning == done.event = "undecodable" => proc = "running"

\* A read whose direction is entry or exit
WayKnown(way) == ~way.nan /\ way.val \in {ENTRY, EXIT}

StudentRead ==
  /\ done.event = "rfid" /\ done.parsable /\ ~done.rejected
  /\ done.tagId = 1 /\ WayKnown(done.way)
  /\ tags[1].released /\ ~tags[1].admin
OnlyClass(slot) == classes = {ClassRow(slot[1], slot[2], 1)}
AtEdge(slot) ==
  clock \in {SlotStart(slot) - DELAY_TOLERANCE * 60, SlotStart(slot) + DELAY_TOLERANCE * 60}
PastEdge(slot) ==
  clock \in {SlotStart(slot) - (DELAY_TOLERANCE + 1) * 60,
             SlotStart(slot) + (DELAY_TOLERANCE + 1) * 60}
\* The instant lies on the day of the class
SameDay(slot) == clock \div 86400 = DayIndex(slot[2])
OutOfSchedule == done.cmd = denyAccess(Num(1), "outOfSchedule")

C13_AntiSpamEdges ==
  (StudentRead /\ accesses = accessCreate(<<>>, 1, 0))
    => /\ clock = (2 * DELAY_TOLERANCE - 1) * 60
            => done.cmd = denyAccess(Num(1), "onlyOneAccess")
       /\ clock = (2 * DELAY_TOLERANCE + 1) * 60
            => /\ done.cmd # denyAccess(Num(1), "onlyOneAccess")
               /\ validateUserSchedule(classes, 1, clock) => IsAllow(done.cmd)

\* A read one minute past the anti-spam interval was admitted
C13_Witness ==
  /\ StudentRead /\ accesses = accessCreate(<<>>, 1, 0)
  /\ clock = (2 * DELAY_TOLERANCE + 1) * 60
  /\ IsAllow(done.cmd)

\* C14: the frame that _buildFrame produces for an index of 0..99 and the
\* payload command+err+data decodes, with _readResponse, to a Message whose
\* index, command, error_or_version and data are the original fields.
C14_RoundTrip ==
  (codec.stage = "message" /\ codec.built) =>
     /\ codec.message.ok
     /\ codec.message.index = Num(codec.index)
     /\ codec.message.command = codec.command
     /\ codec.message.error_or_version = codec.err
     /\ codec.message.data = codec.data

\* C15: _readResponse raises an error, and produces no Message, for every
\* buffer shorter than 7 bytes, or without STX first or ETX last, or whose
\* payload (the bytes between the padding byte and the checksum byte) lacks
\* one of the three '+' separators, whatever its checksum byte.
C15_UnframedIsRejected ==
  LET buf == codec.frame
      payload == SubSeq(buf, 4, Len(buf) - 2)
      separators == Cardinality({i \in 1..Len(payload) : payload[i] = PLUS})
      unframed == \/ Len(buf) < MinFrameLength
                  \/ buf[1] # STX
                  \/ buf[Len(buf)] # ETX
                  \/ separators < 3
  IN (codec.stage = "message" /\ ~codec.built /\ unframed) => ~codec.message.ok

Crashed == \E r \in RunIds : runs[r].pc = "failed"

\* C17: when a run has stopped while holding the lock, then once the marker
\* is older than timeoutSeconds no RFID read is answered or carried on as
\* locked and every run that starts acquires the lock; and a marker left at
\* instant 0 by a stopped run does not keep isLocked() true forever.
C17_StaleLockGivesWay ==
  /\ [][(Crashed /\ marker.exists /\ clock - marker.mtime > timeoutSeconds) =>
          /\ done'.event = "rfid" => ~done'.locked
          /\ \A h \in HandlerIds : handlers'[h].pc # "free" => ~handlers'[h].locked
          /\ \A r \in RunIds :
               (runs[r].pc = "idle" /\ runs'[r].pc # "idle") => runs'[r].acquired]_vars
  /\ (Crashed /\ marker.exists /\ marker.mtime = 0) ~> ~isLocked(marker, clock)

\* After a run stopped holding the lock and the marker expired, a read was
\* admitted and another run has acquired the lock
C17_Witness ==
  /\ Crashed
  /\ overdue
  /\ done.event = "rfid" /\ done.parsable /\ ~done.locked /\ IsAllow(done.cmd)
  /\ \E r \in RunIds : runs[r].pc = "get" /\ runs[r].acquired

\* C18: when the pull phase is run twice in a row with the same payload, and
\* the database fails no query of either run, the Tag and Class tables at the
\* end of the second run are the tables the second run started from.
C18_SecondPullChangesNothing ==
  [][(/\ InPull(2) /\ runs'[2].pc = "fetch"
      /\ runs[1].pc = "fetch"
      /\ runs[1].items = runs[2].items
      /\ runs[1].faulted = {} /\ runs'[2].faulted = {})
       => <<tags', classes'>> = runs[2].start]_vars

\* C19: at the end of a run's pull phase, every schema-valid record of the
\* payload for which the database failed no query has been imported: its Tag
\* holds the record's fields and the user's Class rows are the record's rows
\* (none for a user neither released nor admin).
C19_ValidRecordsImported ==
  \A r \in RunIds :
    (runs[r].pc = "fetch" /\ \A q \in RunIds : q > r => runs[q].pc = "idle") =>
      LET valid == ValidUsers(runs[r].items) IN
      \A i \in 1..Len(valid) :
        LET user == valid[i] IN
        user.userId \notin runs[r].faulted =>
          /\ tags[user.userId] = Tag(user.userId, user.credential, user.released,
                                     user.status, user.admin)
          /\ {row \in classes : row.tagUserId = user.userId}
               = (IF user.released \/ user.admin
                    THEN {user.rows[j] : j \in 1..Len(user.rows)} ELSE {})

\* C20: after an inactivity timeout, an I/O error, a failed write or an
\* explicit close the client holds no socket, and the next connect() or
\* send() opens a new one; after every 'close' event the engine's connect()
\* leaves a live socket; and a client without a live socket always gets a
\* new connection attempt.
C20_ReconnectsAfterEveryClose ==
  /\ [][/\ tcp'.last \in {"timeout", "error", "writeFailed", "closed",
                          "connectError", "connectTimeout"} =>
             tcp'.socket = "none"
        /\ (tcp.socket = "none" /\ tcp'.last \in {"close", "sendConnect"}) =>
             tcp'.socket = "connecting"
        /\ tcp'.last = "close" => Live(tcp')]_vars
  /\ (~Live(tcp)) ~> (tcp.socket = "connecting")

\* A 'close' event has been answered with a new connection attempt
C20_Witness ==
  tcp.last = "close" /\ tcp.socket = "connecting" /\ tcp.closes = 0

\* C21: connect() called while the client holds a live socket opens no
\* socket and leaves that socket as it is, whether it is called by start(),
\* by the 'close' handler or by send(), so the client keeps one socket.
C21_ConnectReusesLiveSocket ==
  [][Live(tcp) =>
       /\ tcp'.last \in {"start", "close", "sent", "buffered"} =>
            (tcp'.socket = tcp.socket /\ tcp'.gen = tcp.gen)
       /\ tcp'.last = "writeFailed" => tcp'.gen = tcp.gen]_vars

\* start() has called connect() while the socket opened by the constructor
\* was still connecting
C21_Witness ==
  /\ tcp.last = "start" /\ tcp.socket = "connecting" /\ tcp.gen = 1
  /\ tcp.closes = 0 /\ tcp.sends = 0 /\ tcp.shuts = 0

\* C22: with one class at minute M and tolerance T, the released non-admin
\* tag is admitted from M-T to M+T, a read before the window is denied with
\* the message "VOLTE NO HORÁRIO DA AULA", a read after it is denied with the
\* message "ATRASADO(A)", and the two messages differ.
C22_EarlyAndLateMessages ==
  \A slot \in DecideSlots :
    (StudentRead /\ accesses = <<>> /\ OnlyClass(slot) /\ SameDay(slot))
      => /\ clock \in {SlotStart(slot) - DELAY_TOLERANCE * 60, SlotStart(slot),
                       SlotStart(slot) + DELAY_TOLERANCE * 60}
              => IsAllow(done.cmd)
         /\ clock = SlotStart(slot) - (DELAY_TOLERANCE + 1) * 60
              => done.cmd = denyAccess(Num(1), "VOLTE NO HORÁRIO DA AULA")
         /\ clock = SlotStart(slot) + (DELAY_TOLERANCE + 1) * 60
              => done.cmd = denyAccess(Num(1), "ATRASADO(A)")

C24_FirstMatchingRule ==
  (done.event = "rfid" /\ done.parsable) =>
    LET tag == getByCredential(tags, done.tagId)
        index == Num(1)
        held == marker.exists /\ clock - marker.mtime <= timeoutSeconds
        recent == /\ HasAccess(accesses, tag.userId)
                  /\ clock - getLastAccessFromUserId(accesses, tag.userId).timestamp
                       < 2 * DELAY_TOLERANCE * 60
        inWindow ==
          \E row \in classes :
            /\ row.tagUserId = tag.userId
            /\ row.weekDay = weekDays[((clock \div 86400) % 7) + 1]
            /\ clock >= SlotStart(<<row.start, row.weekDay>>) - DELAY_TOLERANCE * 60
            /\ clock <= SlotStart(<<row.start, row.weekDay>>) + DELAY_TOLERANCE * 60
        admit ==
          IF ~done.way.nan /\ done.way.val = ENTRY
            THEN done.cmd = allowEntry(index, tag.status)
          ELSE IF ~done.way.nan /\ done.way.val = EXIT
            THEN done.cmd = allowExit(index, tag.status)
          ELSE done.cmd = NoCommand
    IN IF held THEN done.cmd = denyAccess(index, "waitSystemIsUpdating")
       ELSE IF ~tag.present THEN done.cmd = denyAccessDefault(index)
       ELSE IF tag.admin THEN admit
       ELSE IF ~tag.released THEN done.cmd = denyAccess(index, tag.status)
       ELSE IF recent THEN done.cmd = denyAccess(index, "onlyOneAccess")
       ELSE IF ~inWindow THEN done.cmd.kind = "deny"
       ELSE admit

\* C25: a read of a released non-admin tag that passes the anti-spam test is
\* denied with the generic default message when the user has no class row
\* for today, and with the out-of-schedule message only when the user has
\* rows for today and the window of none of them contains the instant.
C25_NoRowsGenericDeny ==
  (StudentRead /\ ~checkAccessSpamProtection(accesses, 1, clock)) =>
    LET rows == getClassesFromUserIdAndWeekDay(classes, 1, weekDays[getDay(clock) + 1])
    IN /\ rows = {} => done.cmd = denyAccessDefault(Num(1))
       /\ (rows # {} /\ ~validateUserSchedule(classes, 1, clock)) =>
            done.cmd = denyAccess(Num(1), "outOfSchedule")

\* C26: an RFID read that passes every authorization check (no repository
\* call rejected, no deny) and whose direction is neither 2 nor 3 sends no
\* command and leaves the pending turn as it was.
C26_UnknownWayIsNoOp ==
  (/\ done.event = "rfid" /\ done.parsable /\ ~done.rejected
   /\ done.cmd.kind # "deny" /\ ~WayKnown(done.way))
    => (done.cmd = NoCommand /\ waitingToTurn = done.before)

\* An admin's read with direction 7 has ended while the turn of an earlier
\* admission was pending
C26_Witness ==
  /\ done.event = "rfid" /\ done.admin /\ ~done.way.nan /\ done.way.val = 7
  /\ done.cmd = NoCommand
  /\ waitingToTurn # NoTurn /\ waitingToTurn = done.before

\* Steps of the handling of a turn start by h: it starts (a turn was
\* pending), it leaves the tag lookup, it goes on to the create, it ends at
\* the create
TurnStartBegins(h) == ~Busy(h) /\ handlers'[h].pc = "tsTag"
TurnStartLeavesLookup(h) == handlers[h].pc = "tsTag" /\ handlers'[h].pc # "tsTag"
TurnStartGoesToCreate(h) == handlers[h].pc = "tsTag" /\ handlers'[h].pc = "tsCreate"
TurnStartEndsAtCreate(h) == handlers[h].pc = "tsCreate" /\ handlers'[h] = FreeHandler

\* C27 as stated: the handling of a turn start creates exactly one Access
\* row when a turn is pending and its tag exists and is not an admin's, and
\* none when no turn is pending, the tag is missing or the tag is an admin's.
C27_TurnStartCreatesOne ==
  [][/\ \A h \in HandlerIds :
          /\ TurnStartBegins(h) =>
               (waitingToTurn.set /\ handlers'[h].tagId = waitingToTurn.tagId)
          /\ TurnStartLeavesLookup(h) =>
               LET tag == getByCredential(tags, handlers[h].tagId) IN
               IF tag.present /\ ~tag.admin
                 THEN TurnStartGoesToCreate(h)
                 ELSE handlers'[h] = FreeHandler /\ accesses' = accesses
          /\ TurnStartEndsAtCreate(h) => Len(accesses') = Len(accesses) + 1
     /\ Len(accesses') > Len(accesses) =>
          \E h \in HandlerIds : TurnStartEndsAtCreate(h)
     /\ (done'.event = "turnStart" /\ ~done'.before.set /\ handlers' = handlers)
          => accesses' = accesses]_vars

\* C27, amended: a handling that found a pending turn goes on to the create
\* exactly when the lookup of the pending tag succeeds and the tag exists
\* and is not an admin's; a create that succeeds adds exactly one row
\* (status waiting, timestamp of the event, userId of the tag resolved); a
\* create that is rejected adds none, and so does every turn start that ends
\* before the create; nothing else adds a row.
C27_TurnStartCreatesOneIfStored ==
  [][/\ \A h \in HandlerIds :
          /\ TurnStartBegins(h) =>
               (waitingToTurn.set /\ handlers'[h].tagId = waitingToTurn.tagId)
          /\ TurnStartLeavesLookup(h) =>
               LET tag == getByCredential(tags, handlers[h].tagId) IN
               /\ accesses' = accesses
               /\ IF TurnStartGoesToCreate(h)
                    THEN /\ tag.present /\ ~tag.admin
                         /\ handlers'[h].userId = tag.userId
                    ELSE /\ handlers'[h] = FreeHandler
                         /\ done'.rejected \/ ~tag.present \/ tag.admin
          /\ (TurnStartEndsAtCreate(h) /\ done'.created) =>
               accesses' = Append(accesses,
                                  [tagUserId |-> handlers[h].userId,
                                   timestamp |-> handlers[h].now,
                                   status |-> "waiting"])
          /\ (TurnStartEndsAtCreate(h) /\ ~done'.created) => accesses' = accesses
     /\ Len(accesses') > Len(accesses) =>
          \E h \in HandlerIds : TurnStartEndsAtCreate(h) /\ done'.created
     /\ (done'.event = "turnStart" /\ ~done'.before.set /\ handlers' = handlers)
          => accesses' = accesses]_vars

\* The turn of user 1 has been recorded as one waiting Access row of user 1
C27_Witness ==
  /\ done.event = "turnStart" /\ done.created /\ done.before.set
  /\ Len(accesses) = 1 /\ accesses[1].tagUserId = 1 /\ accesses[1].status = "waiting"

\* C28: once a turn-start event that found a pending turn has been handled,
\* no turn is pending, whether or not an Access row was created, so that a
\* later turn start without a new admission finds nothing to record.
C28_TurnStartClearsPending ==
  (done.event = "turnStart" /\ done.before.set /\ done.lookups = 1)
    => waitingToTurn = NoTurn

\* C29: the handling of a turn-cancel event (code 82) leaves no turn
\* pending, whatever was pending before, creates no Access row and sends no
\* command.
C29_TurnEndClearsPending ==
  [][done'.event = "turnEnd" =>
       /\ waitingToTurn' = NoTurn
       /\ accesses' = accesses
       /\ done'.cmd = NoCommand]_vars

\* A turn-cancel event has been handled while a turn was pending
C29_Witness ==
  done.event = "turnEnd" /\ done.before.set /\ waitingToTurn = NoTurn

\* C30: a decoded message whose command is not REON, a REON event whose code
\* is none of 0, 81 and 82, and an RFID read whose tagId does not parse each
\* leave the pending turn and the Tag, Class and Access tables as they were
\* and send no command.
C30_IgnoredEventsChangeNothing ==
  [][(\/ done'.event \in {"notREON", "other"}
      \/ done'.event = "rfid" /\ ~done'.parsable) =>
       /\ waitingToTurn' = waitingToTurn
       /\ tags' = tags /\ classes' = classes /\ accesses' = accesses
       /\ done'.cmd = NoCommand]_vars

\* An event of an unknown code has been ignored while a turn was pending
C30_Witness ==
  done.event = "other" /\ done.before.set /\ waitingToTurn = done.before

\* C31: when the pull phase of a run finishes, the Class rows of every valid
\* record's user are exactly the rows expanded from the record when the user
\* is released or admin, and none otherwise, also when a repository call
\* failed part-way: never the old rows, a mixture, or a part of the new rows.
C31_ClassRowsReplacedWhole ==
  [][\A r \in RunIds :
       (InPull(r) /\ runs'[r].pc = "fetch") =>
         LET valid == ValidUsers(runs[r].items) IN
         \A i \in 1..Len(valid) :
           {row \in classes' : row.tagUserId = valid[i].userId}
             = (IF valid[i].released \/ valid[i].admin
                  THEN {valid[i].rows[j] : j \in 1..Len(valid[i].rows)}
                  ELSE {})]_vars

\* C32: at the end of the pull phase of a run during which the database
\* failed no query by itself, the Tag of every valid record's user holds the
\* record's credential, released, status and admin, for every payload, one
\* that moves a credential from a user to another included.
C32_TagsEqualRecords ==
  [][\A r \in RunIds :
       (InPull(r) /\ runs'[r].pc = "fetch" /\ runs'[r].faulted = {}) =>
         LET valid == ValidUsers(runs[r].items) IN
         \A i \in 1..Len(valid) :
           tags'[valid[i].userId] =
             Tag(valid[i].userId, valid[i].credential, valid[i].released,
                 valid[i].status, valid[i].admin)]_vars

\* C33: a run whose GET is rejected, or whose payload holds no valid record,
\* releases the lock and returns: it has changed no Tag, Class or Access
\* row, it has neither fetched nor posted the waiting Access rows, and it
\* does nothing afterwards.
C33_EarlyEndReleasesAndReturns ==
  [][\A r \in RunIds :
       /\ (runs[r].pc = "get" /\ runs'[r].pc = "done") =>
            /\ ~marker'.exists /\ runs'[r].released
            /\ UNCHANGED dbVars
            /\ ~runs'[r].wrote /\ runs'[r].batch = {} /\ runs'[r].posts = 0
       /\ runs[r].pc = "done" => runs'[r] = runs[r]]_vars

\* Run 1 has returned from its GET while an Access row is waiting, and has
\* left no marker
C33_Witness ==
  /\ runs[1].pc = "done" /\ runs[1].gets = 1 /\ runs[1].posts = 0
  /\ runs[1].released /\ ~runs[1].wrote
  /\ runs[2].pc = "idle"
  /\ getWaitingAccesses(accesses) # {} /\ ~marker.exists

\* C34: in the push phase every acknowledgement is processed whether or not
\* the update of an earlier one was rejected: each step of the loop takes
\* one acknowledgement and the loop ends only when none is left; and a run
\* whose POST is rejected or answered with a body that does not parse
\* returns without changing the status of any Access row.
C34_PushGoesOnAfterFailure ==
  [][\A r \in RunIds :
       /\ (runs[r].pc = "update" /\ runs'[r] # runs[r]) =>
            /\ runs'[r].acks \subseteq runs[r].acks
            /\ Cardinality(runs'[r].acks) = Cardinality(runs[r].acks) - 1
            /\ runs'[r].pc = (IF runs'[r].acks = {} THEN "done" ELSE "update")
       /\ (runs[r].pc = "post" /\ runs'[r].pc = "done") => accesses' = accesses
       /\ (runs[r].pc = "post" /\ runs'[r].pc = "update") =>
            (accesses' = accesses /\ runs'[r].acks # {})]_vars

\* The update for the first of two acknowledgements was rejected and the
\* second one was applied
C34_Witness ==
  /\ runs[1].pc = "done" /\ runs[1].posts = 1
  /\ runs[1].missed = {<<1, FALSE>>}
  /\ runs[2].pc = "idle"
  /\ accesses[1].status = "granted"

\* C36: the push phase of a run changes the status only of Access rows that
\* the run fetched as waiting and posted in its batch; an acknowledgement
\* that names any other id changes no row.
C36_OnlyPostedRowsChange ==
  [][\A id \in 1..Len(accesses) :
       accesses'[id].status # accesses[id].status =>
         \E r \in RunIds : runs[r].pc = "update" /\ id \in runs[r].batch]_vars

\* C35: an admission that recorded a pending turn leads to at most one
\* Access row, whatever turn-start and turn-cancel events follow it and
\* however their handlings interleave.
C35_OneAccessPerAuthorization == Len(accesses) <= 1

\* C37: an RFID read that ends in a deny leaves the pending turn as it was;
\* the pending turn is only ever set by a read that was admitted, to that
\* read's credential, and the handling of a turn start resolves the
\* credential that is pending when the event arrives: the Access row goes to
\* the most recent admission, whatever reads were denied in between.
C37_DenyKeepsPendingTurn ==
  [][/\ (done'.event = "rfid" /\ done'.cmd.kind = "deny") =>
          waitingToTurn' = waitingToTurn
     /\ (waitingToTurn'.set /\ waitingToTurn' # waitingToTurn) =>
          /\ done'.event = "rfid" /\ IsAllow(done'.cmd)
          /\ waitingToTurn'.tagId = done'.tagId
     /\ \A h \in HandlerIds :
          TurnStartBegins(h) => handlers'[h].tagId = waitingToTurn.tagId]_vars

\* A read of tag 1 has been denied while the turn of tag 2 was pending, and
\* the turn of tag 2 is still pending
C37_Witness ==
  /\ done.event = "rfid" /\ done.cmd.kind = "deny" /\ done.tagId = 1
  /\ waitingToTurn.set /\ waitingToTurn.tagId = 2
  /\ waitingToTurn = done.before

\* C38: a synchronization run never deletes a Tag, and changes the Tag and
\* the Class rows only of users that appear among the valid records of its
\* payload: a user the payload dropped keeps Tag and rows as they were.
C38_DroppedUsersUntouched ==
  [][\A u \in Users :
       /\ tags[u].present => tags'[u].present
       /\ (\/ tags'[u] # tags[u]
           \/ {row \in classes' : row.tagUserId = u}
                # {row \in classes : row.tagUserId = u}) =>
            \E r \in RunIds :
              /\ InPull(r)
              /\ \E i \in 1..Len(ValidUsers(runs[r].items)) :
                   ValidUsers(runs[r].items)[i].userId = u]_vars

\* A run has imported the record of user 1 from a payload whose record of
\* user 2 was invalid: user 2 keeps its Tag and its Class row
C38_Witness ==
  /\ runs[1].pc = "fetch" /\ runs[1].wrote
  /\ runs[1].items = <<ItemNoLiberado, ItemStudentBlocked>>
  /\ tags[1].status = "PENDENTE"
  /\ tags[2] = InitialTags[2]
  /\ ClassRow(3, "monday", 2) \in classes

\* C39: the cleanups that follow a failed connection attempt destroy only
\* the socket of that attempt: a cleanup that runs after the attempt's
\* socket is gone finds no live socket to destroy, and never the one that
\* the 'close' handler's connect() has opened since.
C39_CleanupSparesLaterSocket ==
  [][tcp'.last = "lateCleanup" => ~Live(tcp)]_vars

Settled40(id) ==
  id <= Len(accesses) /\ accesses[id].status \in {"granted", "revoked"}
Waiting40(id) == id <= Len(accesses) /\ accesses[id].status = "waiting"

\* C40 (as stated): while runs keep being triggered and the API keeps
\* answering the GET with a valid record and acknowledging the events
\* posted, every Access row in status waiting eventually becomes granted or
\* revoked.
C40_WaitingEventuallySettled ==
  \A id \in AccessIds : Waiting40(id) ~> Settled40(id)

\* C40 (amended): under the same conditions, and if the database does not
\* reject the queries of the push phase for ever, every Access row in status
\* waiting eventually becomes granted or revoked.
C40_WaitingSettledIfStored ==
  StoreAnswers => C40_WaitingEventuallySettled

\* A run logged a rejected update of row 1, a later POST named the row again
\* and the row is granted
C40_Witness ==
  /\ runs[1].pc = "done" /\ runs[1].missed = {<<1, TRUE>>}
  /\ runs[2].pc = "done" /\ runs[2].posts = 1 /\ runs[2].missed = {}
  /\ Len(accesses) = 1 /\ accesses[1].status = "granted"
====
